---- MODULE Spec2Model ----
(***************************************************************************)
(* State-machine model of the KFS/QFS client write path                    *)
(* (src/cc/libclient/Writer.cc): the file writer Writer::Impl and its      *)
(* per-chunk writers Writer::Impl::ChunkWriter.                            *)
(*                                                                         *)
(* Every handler of the source is an operator that maps a program state s  *)
(* (a record of the file writer, the MRU list of chunk writers, the clock, *)
(* the history variables and the abort flag) to the state the handler      *)
(* leaves behind; nested calls are nested operator applications, so one    *)
(* action is one whole handler, including every completion it delivers     *)
(* synchronously.  Sizes and times are scaled down: a checksum block holds *)
(* CHECKSUM_BLOCKSIZE bytes and a chunk BlocksPerChunk blocks.             *)
(*                                                                         *)
(* Not modelled: byte contents and checksums (a buffer is its length; a    *)
(* byte is identified by its file offset), access tokens and their expiry  *)
(* (they only set request flags), statistics and logging.  The striper is *)
(* not part of Writer.cc: see Striper_Create.                              *)
(* The application's Completion::Done does not call back into the writer   *)
(* and does not drop its reference, so the reference count comparisons     *)
(* (thePrevRefCount > GetRefCount()) are never true.  A transport Enqueue  *)
(* never fails (the source aborts when it does).  QCRTASSERT is modelled:  *)
(* a failed run-time assertion aborts the process (aborted = TRUE);        *)
(* QCASSERT is compiled out of release builds and is not modelled.         *)
(***************************************************************************)
EXTENDS Integers, Sequences, FiniteSets, TLC

(* ----------------------------- bounds -------------------------------- *)
\* bytes in one checksum block (scaled)
CHECKSUM_BLOCKSIZE == 2
\* checksum blocks in one chunk (scaled)
BlocksPerChunk == 2
\* chunks a file may span in the model
MaxChunks == 2
\* largest length passed to one Write call
MaxWriteLen == 3
\* number of op completions that report a failure
MaxFailures == 2
\* number of other events the environment may spend in one run: a Write or
\* SetWriteThreshold call that takes effect, a Stop or Shutdown call, a
\* step of the clock; a run with a failed completion has one fewer
MaxEvents == 2
\* the clock stops at MaxTime
MaxTime == 4
\* seconds that pass in one step of the clock
TickSecs == 4
\* largest max retry count the constructor is given
MaxRetry == 2
\* seconds of one lease interval (scaled)
LEASE_INTERVAL_SECS == 6
\* largest write threshold and max write size the constructor is given
MaxCfgWriteThreshold == 3
MaxCfgWriteSize == 8

CHUNKSIZE == BlocksPerChunk * CHECKSUM_BLOCKSIZE
MaxFilePos == MaxChunks * CHUNKSIZE

(* ------------------------ program constants -------------------------- *)
kErrorNone       == 0
kErrorParameters == -22
kErrorTryAgain   == -11
kErrorFault      == -14
kErrorNoEntry    == -2
kErrorReadOnly   == -30
kErrorSeek       == -29
kErrorIo         == -5
\* KfsNetClient::kErrorMaxRetryReached, the transport's "all attempts failed"
kErrorMaxRetryReached == -10110
kLeaseRenewTime  == LEASE_INTERVAL_SECS \div 3
\* lease end used when the allocation reply carries no lease duration
kNoLeaseDuration == 10 * 365 * 24 * 3600

(* configuration the constructor installs (Impl::Impl) *)
cfgWriteThreshold        == 2
cfgTimeSecBetweenRetries == 1
cfgMaxWriteSize          == 2 * CHECKSUM_BLOCKSIZE

\* Only([x \in {e} |-> b]) is b with e for x, e computed once
Only(f) == CHOOSE y \in UNION {{h[x] : x \in DOMAIN h} : h \in {f}} : TRUE

Min(a, b) == IF a < b THEN a ELSE b
Max(a, b) == IF a > b THEN a ELSE b

mTimeSecBetweenRetries == cfgTimeSecBetweenRetries
\* a max write size rounded down to a multiple of the checksum block size
MaxWriteSizeDown(inMaxWriteSize) ==
  Min(CHUNKSIZE,
      (Max(0, inMaxWriteSize) \div CHECKSUM_BLOCKSIZE) * CHECKSUM_BLOCKSIZE)

\* Impl::Impl, the initializer of mMaxWriteSize
MaxWriteSize(inMaxWriteSize) ==
  Min(CHUNKSIZE,
      ((Max(0, inMaxWriteSize) + CHECKSUM_BLOCKSIZE - 1) \div CHECKSUM_BLOCKSIZE)
        * CHECKSUM_BLOCKSIZE)

mMaxWriteSize == MaxWriteSize(cfgMaxWriteSize)
\* Open leaves mMaxPendingThreshold = mMaxWriteSize * max(1, stripe count),
\* and the stripe count is 1
mMaxPendingThreshold == mMaxWriteSize
\* without a striper Open sets mOpenChunkBlockSize = CHUNKSIZE
mOpenChunkBlockSize  == CHUNKSIZE

VARIABLES
  fw,       \* Writer::Impl: the file writer's fields
  ws,       \* Impl::mWriters: the chunk writers, most recently used first
  now,      \* NetManager::Now()
  g,        \* history variables (what the application and transports saw)
  aborted   \* a QCRTASSERT failed: abort() ended the process

vars == <<fw, ws, now, g, aborted>>


(* --------------------- the program state record ---------------------- *)
\* the state a handler starts from
Cur == [fw |-> fw, ws |-> ws, now |-> now, g |-> g, ab |-> aborted]

\* abort(): a failed QCRTASSERT
Abort(s) == [s EXCEPT !.ab = TRUE]

Has(s, id)  == \E i \in 1..Len(s.ws) : s.ws[i].id = id
Idx(s, id)  == CHOOSE i \in 1..Len(s.ws) : s.ws[i].id = id
W(s, id)    == s.ws[Idx(s, id)]
PutW(s, id, w) == [s EXCEPT !.ws[Idx(s, id)] = w]
RemoveAt(q, i) == SubSeq(q, 1, i - 1) \o SubSeq(q, i + 1, Len(q))
\* Writers::Remove
DropW(s, id) == [s EXCEPT !.ws = RemoveAt(s.ws, Idx(s, id))]
\* the id a new chunk writer gets: the least one not in use
FreshId(s) == CHOOSE i \in 0..Len(s.ws) : \A k \in 1..Len(s.ws) : s.ws[k].id # i

(* ------------------------------ WriteOp ------------------------------ *)
\* a block range that ends at the end of the chunk
RangeToChunkEnd(op) ==
  [op EXCEPT !.mBeginBlock = op.offset \div CHECKSUM_BLOCKSIZE,
             !.mEndBlock   = BlocksPerChunk]

\* WriteOp::InitBlockRange
InitBlockRange(op) ==
  [op EXCEPT !.mBeginBlock = op.offset \div CHECKSUM_BLOCKSIZE,
             !.mEndBlock   = (op.offset \div CHECKSUM_BLOCKSIZE) +
                 (op.size + CHECKSUM_BLOCKSIZE - 1) \div CHECKSUM_BLOCKSIZE]

\* a write op placed at the start of the chunk whatever the position
WriteOpAtStart(thePos, theSize) ==
  InitBlockRange([offset |-> 0, size |-> theSize,
                  mBeginBlock |-> 0, mEndBlock |-> 0,
                  last |-> FALSE, nEnq |-> 0])

\* new WriteOp() at a chunk offset holding size bytes; last: mLastOpPtr points
\* at this op; nEnq: how often the op was enqueued on the transport (history)
WriteOp(thePos, theSize) ==
  InitBlockRange([offset |-> thePos, size |-> theSize,
                  mBeginBlock |-> 0, mEndBlock |-> 0,
                  last |-> FALSE, nEnq |-> 0])

\* the checksum blocks an op covers, as InitBlockRange computes them
OpBlocks(op) ==
      Only([r \in {InitBlockRange(op)} |->    r.mBeginBlock .. (r.mEndBlock - 1)])

(* ---------------------------- ChunkWriter ---------------------------- *)
\* ChunkWriter::ChunkWriter; out: the ops of this writer, other than write
\* ops, that a transport holds ("alloc" on the meta server; "wid", "close",
\* "lease" on the chunk server); wakeAt: when mSleepTimer fires
ChunkWriter(id) ==
  [id |-> id,
   mErrorCode |-> 0, mRetryCount |-> 0, mPendingCount |-> 0,
   mOpenChunkBlockFileOffset |-> -1,
   mWriteIds |-> FALSE,
   mAllocOp |-> [fileOffset |-> -1, chunkId |-> -1, chunkVersion |-> -1,
                 invalidateAllFlag |-> FALSE, chunkLeaseDuration |-> -1],
   mCloseOp |-> [chunkId |-> 0, chunkVersion |-> -1],
   mLastOpPtr |-> "none",
   mSleepingFlag |-> FALSE, wakeAt |-> 0,
   mClosingFlag |-> FALSE,
   mInFlightBlocks |-> {},
   mKeepLeaseFlag |-> FALSE, mLeaseUpdatePendingFlag |-> FALSE,
   mLeaseEndTime |-> 0, mLeaseExpireTime |-> 0,
   mPendingQueue |-> <<>>, mInFlightQueue |-> <<>>,
   out |-> {},
   nFail |-> 0, lastAck |-> -1]

ClearLast(q) == [i \in 1..Len(q) |-> [q[i] EXCEPT !.last = FALSE]]

\* mLastOpPtr = &op for one of the writer's own ops, or 0
SetLastOp(w, what) ==
  [w EXCEPT !.mLastOpPtr = what,
            !.mPendingQueue = ClearLast(w.mPendingQueue),
            !.mInFlightQueue = ClearLast(w.mInFlightQueue)]

\* a file offset that a sleeping or closing chunk writer does not have
GetFileOffsetAwake(w) ==
  IF w.mErrorCode = 0 /\ ~w.mSleepingFlag /\ ~w.mClosingFlag THEN w.mAllocOp.fileOffset ELSE -1

\* ChunkWriter::GetFileOffset
GetFileOffset(w) == IF w.mErrorCode = 0 THEN w.mAllocOp.fileOffset ELSE -1
\* ChunkWriter::IsIdle
IsIdle(w) ==
  w.mPendingQueue = <<>> /\ w.mInFlightQueue = <<>> /\ ~w.mClosingFlag
\* ChunkWriter::IsOpen
IsOpenW(w) ==
  w.mErrorCode = 0 /\ w.mAllocOp.fileOffset >= 0 /\ ~w.mClosingFlag
\* ChunkWriter::GetOpenChunkBlockFileOffset
GetOpenChunkBlockFileOffset(w) ==
  IF w.mAllocOp.fileOffset >= 0 THEN w.mOpenChunkBlockFileOffset ELSE -1
\* ChunkWriter::CanWrite
CanWrite(w) == w.mPendingQueue # <<>> \/ w.mAllocOp.invalidateAllFlag
\* a lease expiration time that a completion leaves as it is
KeepLeaseExpireTime(w, t) == w

\* ChunkWriter::UpdateLeaseExpirationTime
UpdateLeaseExpirationTime(w, t) ==
  [w EXCEPT !.mLeaseExpireTime =
      Min(w.mLeaseEndTime, t + LEASE_INTERVAL_SECS - kLeaseRenewTime)]

\* ChunkWriter::Sleep
SleepW(w, inSec, t) ==
  IF inSec <= 0 \/ w.mSleepingFlag THEN w
  ELSE [w EXCEPT !.mSleepingFlag = TRUE, !.wakeAt = t + inSec]

\* mSleepTimer.RemoveTimeout(); mSleepingFlag = false
Wake(w) ==
  IF w.mSleepingFlag
  THEN [w EXCEPT !.mSleepingFlag = FALSE, !.wakeAt = 0] ELSE w

\* ChunkWriter::CancelLeaseUpdate: the writer it leaves (the result is
\* w.mLeaseUpdatePendingFlag)
CancelLeaseUpdate(w) ==
  IF ~w.mLeaseUpdatePendingFlag THEN w
  ELSE [Wake(w) EXCEPT !.mLeaseUpdatePendingFlag = FALSE]

\* a cancelled write op that is dropped and not put back
CancelDropOp(w) ==
  [w EXCEPT !.mInFlightBlocks =
               w.mInFlightBlocks \ OpBlocks(InitBlockRange(w.mInFlightQueue[1])),
            !.mInFlightQueue = Tail(w.mInFlightQueue)]

\* ChunkWriter::Done(WriteOp&) with inCanceledFlag, as KfsNetClient::Stop
\* delivers it for the op at the head of the in-flight queue: the op's bits
\* are cleared and the op goes back to the tail of the pending queue
CancelWriteOp(w) ==
      Only([op \in {InitBlockRange(w.mInFlightQueue[1])} |->
  [w EXCEPT !.mInFlightBlocks = w.mInFlightBlocks \ OpBlocks(op),
            !.mInFlightQueue = Tail(w.mInFlightQueue),
            !.mPendingQueue = Append(w.mPendingQueue, [op EXCEPT !.last = FALSE]),
            !.mLastOpPtr = IF op.last THEN "none" ELSE w.mLastOpPtr]])

RECURSIVE CancelWriteOps(_)
CancelWriteOps(w) ==
  IF w.mInFlightQueue = <<>> THEN w ELSE CancelWriteOps(CancelWriteOp(w))

\* a chunk server transport that is not stopped: its ops stay where they are
CsKeepOps(w) == w

\* mChunkServer.Stop(): every op the chunk server transport holds completes
\* with inCanceledFlag set (ChunkWriter::OpDone): a cancelled write id
\* allocation clears mWriteIds, a cancelled write op returns to pending
CsStop(w) ==
      Only([w1 \in {[w EXCEPT
               !.out = w.out \cap {"alloc"},
               !.mWriteIds = IF "wid" \in w.out THEN FALSE ELSE w.mWriteIds,
               !.mLastOpPtr = IF w.mLastOpPtr \in (w.out \ {"alloc"})
                              THEN "none" ELSE w.mLastOpPtr]} |->
     CancelWriteOps(w1)])

\* the allocation left with the meta server
KeepAlloc(w) == w

\* mOuter.mMetaServer.Cancel(&mAllocOp, this): OpDone(&mAllocOp, canceled)
MetaCancelAlloc(w) ==
  IF "alloc" \in w.out
  THEN [w EXCEPT !.out = w.out \ {"alloc"},
                 !.mLastOpPtr = IF w.mLastOpPtr = "alloc" THEN "none"
                                ELSE w.mLastOpPtr]
  ELSE w

\* ChunkWriter::Reset()
Reset(w) ==
      Only([w1 \in {IF w.mLastOpPtr = "alloc" THEN MetaCancelAlloc(w) ELSE w} |->
      Only([w2 \in {SetLastOp([w1 EXCEPT !.mWriteIds = FALSE, !.mAllocOp.chunkId = 0],
                      "none")} |->
      Only([w3 \in {Wake(CsStop(w2))} |->
     [w3 EXCEPT !.mLeaseUpdatePendingFlag = FALSE]])])])

\* ChunkWriter::Shutdown
ShutdownW(w) ==
  [Reset(w) EXCEPT !.mPendingQueue = <<>>, !.mClosingFlag = FALSE,
                   !.mErrorCode = 0, !.mPendingCount = 0]


(* ------------------- enqueueing ops on a transport ------------------- *)
\* ChunkWriter::EnqueueSelf for the writer's allocation, write id
\* allocation, close and lease update ops
Enqueue(w, what, t) ==
  [SetLastOp(w, what) EXCEPT !.out = w.out \cup {what}]

\* ChunkWriter::AllocateChunk
AllocateChunk(w, t) ==
  Enqueue([w EXCEPT !.mAllocOp.chunkId = -1, !.mAllocOp.chunkVersion = -1,
                    !.mAllocOp.chunkLeaseDuration = -1], "alloc", t)

\* ChunkWriter::AllocateWriteId (the reply of the meta server names the
\* chunk servers, and clear text access is allowed)
AllocateWriteId(w, t) == Enqueue(w, "wid", t)

\* a CloseChunk that keeps the write ids
CloseChunkKeepIds(w, t) ==
  Enqueue([w EXCEPT !.mCloseOp.chunkId = w.mAllocOp.chunkId,
                    !.mCloseOp.chunkVersion = w.mAllocOp.chunkVersion,
                    !.mAllocOp.chunkId = -1], "close", t)

\* ChunkWriter::CloseChunk
CloseChunk(w, t) ==
  Enqueue([w EXCEPT !.mCloseOp.chunkId = w.mAllocOp.chunkId,
                    !.mCloseOp.chunkVersion = w.mAllocOp.chunkVersion,
                    !.mWriteIds = FALSE,
                    !.mAllocOp.chunkId = -1], "close", t)

\* ChunkWriter::UpdateLease
UpdateLease(w, t) == Enqueue(w, "lease", t)

\* ChunkWriter::SheduleLeaseUpdate: the writer it leaves and its result
SheduleLeaseUpdate(w, t) ==
  IF ~w.mKeepLeaseFlag THEN [w |-> w, ret |-> FALSE]
  ELSE IF t < w.mLeaseExpireTime
  THEN [w |-> SleepW([w EXCEPT !.mLeaseUpdatePendingFlag = TRUE],
                     w.mLeaseExpireTime - t, t),
        ret |-> FALSE]
  ELSE [w |-> w, ret |-> TRUE]

\* the in-flight bitmap not consulted
NoneBusy(op, bits) == op.mEndBlock

\* ChunkWriter::Write(WriteOp&), the loop over the op's blocks: the first
\* block of the op's remaining range that is marked in flight, or mEndBlock
FirstBusy(op, bits) ==
  IF \E b \in op.mBeginBlock .. (op.mEndBlock - 1) : b \in bits
  THEN CHOOSE b \in op.mBeginBlock .. (op.mEndBlock - 1) :
         /\ b \in bits
         /\ \A c \in op.mBeginBlock .. (b - 1) : c \notin bits
  ELSE op.mEndBlock

\* a pass that returns at the first op it has to leave pending
RECURSIVE WritePassStop(_, _, _)
WritePassStop(r, i, t) ==
  IF i > Len(r.w.mPendingQueue) THEN r
  ELSE
    Only([w \in {r.w} |->
    Only([op \in {w.mPendingQueue[i]} |->
    Only([k \in {IF \E b \in op.mBeginBlock .. (op.mEndBlock - 1) :
                      b \in w.mInFlightBlocks
                 THEN op.mBeginBlock ELSE op.mEndBlock} |->
      IF k < op.mEndBlock
      THEN [r EXCEPT !.skip = Append(r.skip, op)]
      ELSE WritePassStop(
             [r EXCEPT
                !.w = [SetLastOp(w, "write") EXCEPT
                   !.mInFlightBlocks =
                      w.mInFlightBlocks \cup
                      (op.mBeginBlock .. (op.mEndBlock - 1)),
                   !.mPendingQueue = RemoveAt(w.mPendingQueue, i),
                   !.mInFlightQueue =
                      Append(w.mInFlightQueue,
                             [op EXCEPT !.mBeginBlock = op.mEndBlock,
                                        !.last = TRUE,
                                        !.nEnq = Min(op.nEnq + 1,
                                                     MaxRetry + 2)])],
                !.disp = Append(r.disp, op)],
             i, t)])])])

\* ChunkWriter::Write(): one pass over the pending queue.  i: the place of
\* the iterator in the pending queue; r.w: the writer; r.skip: the ops the
\* pass left pending (as they were before Write(WriteOp&) touched them);
\* r.disp: the ops it enqueued, in the order of their Enqueue calls; r.over:
\* an op was enqueued after the pass had left an op before it pending
RECURSIVE WritePass(_, _, _)
WritePass(r, i, t) ==
  IF i > Len(r.w.mPendingQueue) THEN r
  ELSE
        Only([w \in {r.w} |->
        Only([op \in {w.mPendingQueue[i]} |->
        Only([k \in {FirstBusy(op, w.mInFlightBlocks)} |->
        Only([bits \in {w.mInFlightBlocks \cup (op.mBeginBlock .. (k - 1))} |->
        Only([held \in {[op EXCEPT !.mBeginBlock = k]} |->
       IF k < op.mEndBlock
       THEN \* a block is in flight: return, the op stays where it is
            WritePass([r EXCEPT !.w.mInFlightBlocks = bits,
                                !.w.mPendingQueue[i] = held,
                                !.skip = Append(r.skip, op)],
                      i + 1, t)
       ELSE     Only([sent \in {[held EXCEPT !.last = TRUE,
                                     !.nEnq = Min(op.nEnq + 1, MaxRetry + 2)]} |->
                Only([w1 \in {SetLastOp(w, "write")} |->
                Only([w2 \in {[w1 EXCEPT
                         !.mInFlightBlocks = bits,
                         !.mPendingQueue = RemoveAt(w1.mPendingQueue, i),
                         !.mInFlightQueue = Append(w1.mInFlightQueue, sent)]} |->
               WritePass([r EXCEPT !.w = w2, !.disp = Append(r.disp, op),
                                   !.over = r.over \/ r.skip # <<>>],
                         i, t)])])])])])])])])

\* the pass of ChunkWriter::Write() over the writer's pending queue (the
\* loop runs while the writer is neither sleeping nor in error and holds a
\* chunk id; enqueueing changes none of these)
Write(w, t) ==
  IF ~w.mSleepingFlag /\ w.mErrorCode = 0 /\ w.mAllocOp.chunkId > 0
  THEN WritePass([w |-> w, skip |-> <<>>, disp |-> <<>>, over |-> FALSE], 1, t)
  ELSE [w |-> w, skip |-> <<>>, disp |-> <<>>, over |-> FALSE]

(* ------------------------ ChunkWriter::QueueWrite -------------------- *)
\* the attempt to append to the last pending op, mOuter.mMaxWriteSize being
\* theMaxWriteSize: r.q the pending queue, r.size the bytes left to place,
\* r.pos the chunk position
CoalesceOf(theMaxWriteSize, q, theSize, thePos) ==
      Only([same \in {[q |-> q, size |-> theSize, pos |-> thePos]} |->
  IF q = <<>> THEN same
  ELSE
        Only([theOp \in {q[Len(q)]} |->
        Only([theOpSize \in {theOp.size} |->
        Only([theOpPos \in {theOp.offset} |->
        Only([theHead \in {theOpPos % CHECKSUM_BLOCKSIZE} |->
        Only([n0 \in {Min(theSize,
                  (IF theHead = 0 THEN theMaxWriteSize
                   ELSE CHECKSUM_BLOCKSIZE - theHead) - theOpSize)} |->
        Only([theNWr \in {IF n0 > 0 /\ theOpSize + n0 > CHECKSUM_BLOCKSIZE
                  THEN n0 - ((theOpSize + n0) % CHECKSUM_BLOCKSIZE) ELSE n0} |->
        Only([grown \in {[InitBlockRange([theOp EXCEPT !.size = theOpSize + theNWr])
                    EXCEPT !.mBeginBlock = theOp.mBeginBlock]} |->
       IF theOpPos + theOpSize = thePos /\ theNWr > 0
       THEN [q |-> [q EXCEPT ![Len(q)] = grown],
             size |-> theSize - theNWr, pos |-> thePos + theNWr]
       ELSE same])])])])])])])])

\* the same with the max write size of the writer of the program
Coalesce(q, theSize, thePos) == CoalesceOf(mMaxWriteSize, q, theSize, thePos)

\* no op for the leading fragment
NoFragment(r, theWriteThreshold) == r

\* the op for a leading fragment that does not start on a block boundary
Fragment(r, theWriteThreshold) ==
      Only([theBlockOff \in {r.pos % CHECKSUM_BLOCKSIZE} |->
      Only([theNWr \in {Min(r.size, CHECKSUM_BLOCKSIZE - theBlockOff)} |->
     IF theBlockOff > 0 /\ (r.size >= theWriteThreshold \/
                            theBlockOff + r.size >= CHECKSUM_BLOCKSIZE)
     THEN [q |-> Append(r.q, WriteOp(r.pos, theNWr)),
           size |-> r.size - theNWr, pos |-> r.pos + theNWr]
     ELSE r])])

\* one new op for the bytes left, however few or many
QueueOneOp(r, theWriteThreshold) ==
  [q |-> Append(r.q, WriteOp(r.pos, r.size)), size |-> 0,
   pos |-> r.pos + r.size]

\* while (theSize >= theWriteThreshold): one new op per iteration,
\* mOuter.mMaxWriteSize being theMaxWriteSize.  An iteration that moves no
\* byte leaves theSize and thePos, and with them the loop's condition, as
\* they are: it is repeated without end, each time with one more op.  The
\* result is then the state after the first such iteration: r.size is not
\* below the threshold and the last op is empty
RECURSIVE QueueOpsOf(_, _, _)
QueueOpsOf(theMaxWriteSize, r, theWriteThreshold) ==
  IF r.size >= theWriteThreshold
  THEN     Only([o0 \in {Min(theMaxWriteSize, r.size)} |->
           Only([theOpSize \in {IF o0 > CHECKSUM_BLOCKSIZE
                        THEN o0 - (o0 % CHECKSUM_BLOCKSIZE) ELSE o0} |->
           Only([r1 \in {[q |-> Append(r.q, WriteOp(r.pos, theOpSize)),
                          size |-> r.size - theOpSize,
                          pos |-> r.pos + theOpSize]} |->
          IF theOpSize = 0 THEN r1
          ELSE QueueOpsOf(theMaxWriteSize, r1, theWriteThreshold)])])])
  ELSE r

\* the same with the max write size of the writer of the program
QueueOps(r, theWriteThreshold) ==
  QueueOpsOf(mMaxWriteSize, r, theWriteThreshold)

\* ChunkWriter::QueueWrite on the file writer's buffer: r.s the state,
\* r.n the number of bytes queued
ChunkWriter_QueueWrite(s, id, inSize, inOffset, inWriteThreshold) ==
      Only([w0 \in {W(s, id)} |->
      Only([theSize0 \in {Min(s.fw.mBuffer, inSize)} |->
      Only([theChunkOffset \in {inOffset % CHUNKSIZE} |->
      Only([fresh \in {w0.mAllocOp.fileOffset < 0} |->
      Only([w1 \in {IF fresh
            THEN [w0 EXCEPT
                    !.mAllocOp.fileOffset = inOffset - theChunkOffset,
                    !.mOpenChunkBlockFileOffset =
                        (inOffset - theChunkOffset) -
                        ((inOffset - theChunkOffset) % mOpenChunkBlockSize)]
            ELSE w0} |->
      Only([theSize1 \in {Min(theSize0, CHUNKSIZE - theChunkOffset)} |->
      Only([r1 \in {Coalesce(w1.mPendingQueue, theSize1, theChunkOffset)} |->
      Only([theWriteThreshold \in {IF r1.pos + r1.size >= CHUNKSIZE THEN 1
                           ELSE Max(inWriteThreshold, 1)} |->
      Only([r3 \in {QueueOps(Fragment(r1, theWriteThreshold), theWriteThreshold)} |->
      Only([theNWr \in {r3.pos - theChunkOffset} |->
      Only([w2 \in {[w1 EXCEPT !.mPendingQueue = r3.q,
                       !.mPendingCount = w1.mPendingCount + theNWr]} |->
     IF theSize0 <= 0 THEN [s |-> s, n |-> 0]
     ELSE IF inOffset < 0 \/ w0.mClosingFlag
             \/ (~fresh /\ w0.mAllocOp.fileOffset # inOffset - theChunkOffset)
     THEN [s |-> Abort(s), n |-> 0]
     ELSE IF ~(r3.pos <= CHUNKSIZE /\ r3.size >= 0)
     THEN [s |-> Abort(s), n |-> 0]
     ELSE [s |-> [PutW(s, id, w2) EXCEPT
                    !.fw.mBuffer = s.fw.mBuffer - theNWr,
                    !.g.owed = s.g.owed + theNWr],
           n |-> theNWr]])])])])])])])])])])])


(* ------------------ what the application is told --------------------- *)
\* mCompletionPtr->Done(mOuter, mErrorCode, inOffset, inSize)
CompletionDone(s, theErrorCode, inOffset, inSize) ==
  [s EXCEPT !.g.more = IF s.g.clean THEN s.g.more - inSize ELSE 0,
            !.g.dones = Append(s.g.dones, <<theErrorCode, inOffset, inSize>>)]

\* the terminal mCompletionPtr->Done(mOuter, mErrorCode, 0, 0) of a close
TerminalDone(s, theErrorCode) ==
  [s EXCEPT !.g.term = theErrorCode, !.g.fin = TRUE,
            !.g.dones = Append(s.g.dones, <<theErrorCode, 0, 0>>)]

NoWriter == -1

(* ----------------------------- Impl ---------------------------------- *)
\* Impl::IsOpen
IsOpen(f) == f.mFileId > 0
(* The striper (Striper::Create and the object it returns) is not part of
   Writer.cc.  It is taken from the specification: a hook that may replace
   the default pass-through of the staged bytes and that answers, for a
   failed op, whether the write has to be retried.  The striper here
   passes the staged bytes through as they are, keeps no bytes of its own,
   and gives one answer as long as it lives. *)
\* mStriperPtr = 0
NoStriper == "none"
\* the stripers: one that asks for the retry of every failed write and one
\* that needs no retry
Stripers == {"retry", "noretry"}
\* Striper::Create: no striper for KFS_STRIPED_FILE_TYPE_NONE
Striper_Create(inStriperType) == inStriperType
\* Striper::GetPendingSize
Striper_GetPendingSize(f) == 0
\* Striper::GetFileSize
Striper_GetFileSize(f) == f.mOffset + f.mBuffer
\* Striper::IsWriteRetryNeeded
Striper_IsWriteRetryNeeded(f, inChunkOffset, inRetryCount, inMaxRetryCount, inStatus) ==
  f.mStriperPtr # "noretry"

\* Impl::GetPendingSizeSelf
GetPendingSizeSelf(f) ==
  f.mBuffer + (IF f.mStriperPtr # NoStriper
               THEN Max(0, Striper_GetPendingSize(f)) ELSE 0)
\* Impl::GetPendingSize
GetPendingSize(f) == GetPendingSizeSelf(f) + f.mPendingCount

\* Impl::Sleep
Sleep(s, inSec) ==
  IF inSec <= 0 \/ s.fw.mSleepingFlag THEN s
  ELSE [s EXCEPT !.fw.mSleepingFlag = TRUE, !.fw.wakeAt = s.now + inSec]

\* Impl::SetFileSize: the truncate op is enqueued on the meta server
\* (mTruncateOp.fid >= 0 while the meta server holds it)
\* a truncate op enqueued for a replicated file and not for an object
\* store file
SetFileSizeReplicated(s) ==
  IF s.fw.mReplicaCount = 0 \/ s.fw.mErrorCode # 0 \/
     0 <= s.fw.mTruncateOp.fid \/
     s.fw.mOffset + s.fw.mBuffer <= s.fw.mTruncateOp.fileOffset
  THEN s
  ELSE [s EXCEPT !.fw.mOpStartTime = s.now,
                 !.fw.mTruncateOp = [fid |-> s.fw.mFileId,
                                     fileOffset |-> s.fw.mOffset +
                                                    s.fw.mBuffer],
                 !.g.trunc = s.g.trunc + 1]

\* Impl::SetFileSize
SetFileSize(s) ==
      Only([f \in {s.fw} |->
      Only([theSize \in {IF f.mStriperPtr # NoStriper
                         THEN Striper_GetFileSize(f)
                         ELSE f.mOffset + f.mBuffer} |->
     IF (f.mStriperPtr = NoStriper /\ f.mReplicaCount # 0) \/
        f.mErrorCode # 0 \/ 0 <= f.mTruncateOp.fid
     THEN s
     ELSE IF theSize < 0 \/ theSize <= f.mTruncateOp.fileOffset THEN s
     ELSE [s EXCEPT !.fw.mOpStartTime = s.now,
                    !.fw.mTruncateOp = [fid |-> f.mFileId,
                                        fileOffset |-> theSize],
                    !.g.trunc = s.g.trunc + 1]])])

\* a CanClose that looks at nothing but IsIdle
CanCloseIdle(s, w) == IsIdle(w)

\* Impl::CanClose
CanClose(s, w) ==
  IF ~IsIdle(w) THEN FALSE
  ELSE IF ~IsOpenW(w) \/ s.fw.mClosingFlag THEN TRUE
  ELSE IF s.ws = <<>> THEN TRUE
  ELSE IF 0 < s.fw.mReplicaCount /\ s.ws[1].id = w.id THEN FALSE
  ELSE     Only([theLeftEdge \in {GetOpenChunkBlockFileOffset(s.ws[1])} |->
           Only([theOffset \in {GetFileOffset(w)} |->
          IF theLeftEdge < 0 THEN FALSE
          ELSE theOffset < theLeftEdge \/
               theLeftEdge + mOpenChunkBlockSize <= theOffset])])

\* delete &theWriter: ~ChunkWriter runs Shutdown and leaves the list
DeleteWriter(s, id) == DropW(PutW(s, id, ShutdownW(W(s, id))), id)

\* the chunk writers from Writers::Back to Writers::Front
BackToFront(q) == [i \in 1..Len(q) |-> q[Len(q) + 1 - i].id]

\* a lease taken to last for ever
NeverExpired(w, t) == FALSE

\* ChunkWriter::StartWrite, the test for an expired write lease
LeaseExpired(w, t) ==
  0 < w.mAllocOp.chunkId /\
  Min(w.mLeaseEndTime - 1, w.mLeaseExpireTime + kLeaseRenewTime \div 2) <= t

\* after a pass of Write(): an op is left pending although the first block
\* it still has to claim is free
HeldBack(w) ==
  \E i \in 1..Len(w.mPendingQueue) :
     w.mPendingQueue[i].mBeginBlock \notin w.mInFlightBlocks

\* the ops a pass enqueued, in the order of their Enqueue calls, are ops of
\* the pending queue q in the order q held them
InQueueOrder(disp, q) ==
  \E f \in [1..Len(disp) -> 1..Len(q)] :
     /\ \A i \in 1..Len(disp) : q[f[i]] = disp[i]
     /\ \A i, j \in 1..Len(disp) : i < j => f[i] < f[j]

\* retries without end
NeverExhausted(theRetryCount, theMaxRetryCount) == FALSE

\* no retry at all
AlwaysExhausted(theRetryCount, theMaxRetryCount) == TRUE

\* ChunkWriter::HandleError, ++mRetryCount > mOuter.mMaxRetryCount
RetryExhausted(theRetryCount, theMaxRetryCount) ==
  theRetryCount > theMaxRetryCount

RECURSIVE StartWrite(_, _), HandleError(_, _, _, _, _),
          ChunkWriter_ReportCompletion(_, _, _, _),
          ReportCompletion(_, _, _, _), TryToCloseIdleLoop(_, _, _, _),
          ChunkWriter_Close(_, _), FatalError(_, _), ChunkWriter_Timeout(_, _)

\* ChunkWriter::Timeout
ChunkWriter_Timeout(s, id) == StartWrite(PutW(s, id, Wake(W(s, id))), id)

\* ChunkWriter::Close
ChunkWriter_Close(s, id) ==
      Only([w \in {W(s, id)} |->
  IF ~w.mClosingFlag /\ IsOpenW(w)
  THEN StartWrite(PutW(s, id, [w EXCEPT !.mClosingFlag = TRUE]), id)
  ELSE s])

\* the file offset of the writer lies in the open chunk block window of the
\* front writer, [left edge, left edge + mOpenChunkBlockSize)
InFrontWindow(s, w) ==
  /\ s.ws # <<>>
  /\ GetOpenChunkBlockFileOffset(s.ws[1]) >= 0
  /\ GetOpenChunkBlockFileOffset(s.ws[1]) <= GetFileOffset(w)
  /\ GetFileOffset(w) <
        GetOpenChunkBlockFileOffset(s.ws[1]) + mOpenChunkBlockSize

\* what TryToCloseIdle is about to do to the writer w, for the history:
\* busy, the writer is not idle; kept, the file is not closing and the
\* writer is open and in the front writer's window, or is the front writer
\* of a replicated file
Reaping(s, w, theOpenFlag) ==
  [s EXCEPT !.g.reapBusy = s.g.reapBusy \/ ~IsIdle(w),
            !.g.reapKept = s.g.reapKept \/
               (theOpenFlag /\ ~s.fw.mClosingFlag /\
                (InFrontWindow(s, w) \/
                 (s.fw.mReplicaCount > 0 /\ s.ws[1].id = w.id)))]

\* Impl::TryToCloseIdle, the loop from the back of the list; todo: the
\* writers the loop has not visited; r.ret: theRetFlag
TryToCloseIdleLoop(s, inWriterPtr, todo, theRetFlag) ==
  IF todo = <<>> \/ s.ab THEN [s |-> s, ret |-> theRetFlag]
  ELSE
        Only([x \in {Head(todo)} |->
        Only([w \in {W(s, x)} |->
       IF CanClose(s, w)
       THEN     Only([theOpenFlag \in {IsOpenW(w)} |->
                Only([s1 \in {IF theOpenFlag
                              THEN ChunkWriter_Close(Reaping(s, w, TRUE), x)
                              ELSE s} |->
                Only([del \in {~theOpenFlag \/
                       (~s1.ab /\ ~IsOpenW(W(s1, x)) /\ CanClose(s1, W(s1, x)))} |->
                Only([s2 \in {IF del /\ ~s1.ab
                              THEN DeleteWriter(Reaping(s1, W(s1, x), FALSE), x)
                              ELSE s1} |->
               TryToCloseIdleLoop(s2, inWriterPtr, Tail(todo),
                 IF del /\ x = inWriterPtr THEN FALSE ELSE theRetFlag)])])])])
       ELSE IF IsIdle(w) /\ IsOpenW(w)
       THEN [s |-> s, ret |-> theRetFlag]
       ELSE TryToCloseIdleLoop(s, inWriterPtr, Tail(todo), theRetFlag)])])

\* Impl::TryToCloseIdle
TryToCloseIdle(s, inWriterPtr) ==
  IF s.ws = <<>> THEN [s |-> s, ret |-> (inWriterPtr = NoWriter)]
  ELSE TryToCloseIdleLoop(s, inWriterPtr, BackToFront(s.ws), TRUE)

\* a ReportCompletion that ends a close while chunk writers are left
ReportCompletionEarly(s, inWriterPtr, inOffset, inSize) ==
  IF s.ab THEN [s |-> s, ret |-> FALSE]
  ELSE IF ~(s.fw.mPendingCount >= 0 /\ s.fw.mPendingCount >= inSize)
  THEN [s |-> Abort(s), ret |-> FALSE]
  ELSE
        Only([depth \in {s.fw.mCompletionDepthCount + 1} |->
        Only([err \in {IF inWriterPtr # NoWriter /\ s.fw.mErrorCode = 0
               THEN W(s, inWriterPtr).mErrorCode ELSE s.fw.mErrorCode} |->
        Only([s1 \in {CompletionDone(
                [s EXCEPT !.fw.mCompletionDepthCount = depth,
                          !.fw.mPendingCount = s.fw.mPendingCount - inSize,
                          !.fw.mErrorCode = err],
                err, inOffset, inSize)} |->
       IF depth > 1 \/ s1.fw.mStriperProcessCount > 0
       THEN [s |-> [s1 EXCEPT !.fw.mCompletionDepthCount = depth - 1],
             ret |-> TRUE]
       ELSE
             Only([r \in {TryToCloseIdle(s1, inWriterPtr)} |->
             Only([s2 \in {r.s} |->
             Only([empty \in {s2.fw.mClosingFlag /\ ~s2.fw.mSleepingFlag} |->
             Only([s3 \in {IF empty THEN SetFileSize(s2) ELSE s2} |->
             Only([fin \in {empty /\ s3.fw.mTruncateOp.fid < 0} |->
             Only([s4 \in {IF fin
                   THEN TerminalDone([s3 EXCEPT !.fw.mClosingFlag = FALSE,
                                                !.fw.mFileId = -1,
                                                !.fw.mStriperPtr = NoStriper],
                                     s3.fw.mErrorCode)
                   ELSE s3} |->
            [s |-> [s4 EXCEPT !.fw.mCompletionDepthCount = depth - 1],
             ret |-> IF fin THEN FALSE ELSE r.ret]])])])])])])])])])

\* Impl::ReportCompletion: r.s the state, r.ret the result
ReportCompletion(s, inWriterPtr, inOffset, inSize) ==
  IF s.ab THEN [s |-> s, ret |-> FALSE]
  ELSE IF ~(s.fw.mPendingCount >= 0 /\ s.fw.mPendingCount >= inSize)
  THEN [s |-> Abort(s), ret |-> FALSE]
  ELSE
        Only([depth \in {s.fw.mCompletionDepthCount + 1} |->
        Only([err \in {IF inWriterPtr # NoWriter /\ s.fw.mErrorCode = 0
               THEN W(s, inWriterPtr).mErrorCode ELSE s.fw.mErrorCode} |->
        Only([s1 \in {CompletionDone(
                [s EXCEPT !.fw.mCompletionDepthCount = depth,
                          !.fw.mPendingCount = s.fw.mPendingCount - inSize,
                          !.fw.mErrorCode = err],
                err, inOffset, inSize)} |->
       IF depth > 1 \/ s1.fw.mStriperProcessCount > 0
       THEN [s |-> [s1 EXCEPT !.fw.mCompletionDepthCount = depth - 1],
             ret |-> TRUE]
       ELSE
             Only([r \in {TryToCloseIdle(s1, inWriterPtr)} |->
             Only([s2 \in {r.s} |->
             Only([empty \in {s2.fw.mClosingFlag /\ s2.ws = <<>> /\
                      ~s2.fw.mSleepingFlag} |->
             Only([s3 \in {IF empty THEN SetFileSize(s2) ELSE s2} |->
             Only([fin \in {empty /\ s3.fw.mTruncateOp.fid < 0} |->
             Only([s4 \in {IF fin
                   THEN TerminalDone([s3 EXCEPT !.fw.mClosingFlag = FALSE,
                                                !.fw.mFileId = -1,
                                                !.fw.mStriperPtr = NoStriper],
                                     s3.fw.mErrorCode)
                   ELSE s3} |->
            [s |-> [s4 EXCEPT !.fw.mCompletionDepthCount = depth - 1],
             ret |-> IF fin THEN FALSE ELSE r.ret]])])])])])])])])])

\* an error that is not taken for fatal
IgnoreError(s, inErrorCode) == s

\* Impl::FatalError
FatalError(s, inErrorCode) ==
      Only([e1 \in {IF s.fw.mErrorCode = 0 THEN inErrorCode ELSE s.fw.mErrorCode} |->
      Only([e2 \in {IF e1 = 0 THEN kErrorIo ELSE e1} |->
     ReportCompletion([s EXCEPT !.fw.mErrorCode = e2,
                                !.fw.mClosingFlag = FALSE],
                      NoWriter, 0, 0).s])])

\* ChunkWriter::ReportCompletion
ChunkWriter_ReportCompletion(s, id, inOffset, inSize) ==
      Only([w \in {W(s, id)} |->
      Only([w1 \in {IF w.mErrorCode = 0
            THEN [w EXCEPT !.mRetryCount = 0, !.nFail = 0] ELSE w} |->
     ReportCompletion(PutW(s, id, w1), id, inOffset, inSize)])])

\* ChunkWriter::GetTimeToNextRetry.  mOpStartTime is not kept: the time
\* since the op started is not negative, so the second operand is at most
\* mTimeSecBetweenRetries, which is at most 1 here, and the first operand
\* is 1 at the only call (HandleError has just incremented mRetryCount)
GetTimeToNextRetry(w, t) ==
  Max(IF w.mRetryCount >= 1 THEN 1 ELSE 0, mTimeSecBetweenRetries)

\* a HandleError that gives up with the generic i/o error, whatever failed
HandleErrorAsIo(s, id, what, theStatus, theLastError) ==
  FatalError(PutW(s, id, Reset([W(s, id) EXCEPT !.mErrorCode = kErrorIo])),
             kErrorIo)

\* ChunkWriter::HandleError; what: the op that failed ("alloc", "wid",
\* "close", "lease", "write"), theStatus and theLastError: its status and
\* lastError
HandleError(s, id, what, theStatus, theLastError) ==
      Only([w \in {W(s, id)} |->
  IF what = "alloc" /\ theStatus = kErrorNoEntry
  THEN FatalError(PutW(s, id, Reset([w EXCEPT !.mErrorCode = theStatus,
                                              !.nFail = w.nFail + 1])),
                  theStatus)
  ELSE IF what = "alloc" /\ theStatus = kErrorReadOnly /\ w.mClosingFlag /\
          0 < w.mCloseOp.chunkId /\ w.mKeepLeaseFlag
  THEN StartWrite(PutW(s, id, Reset([w EXCEPT !.mKeepLeaseFlag = FALSE,
                                              !.mCloseOp.chunkId = -1])), id)
  ELSE
        Only([rc0 \in {IF what = "alloc" /\ theStatus = kErrorMaxRetryReached /\
                  w.mRetryCount < s.fw.mMaxRetryCount
               THEN s.fw.mMaxRetryCount ELSE w.mRetryCount} |->
    IF s.fw.mStriperPtr # NoStriper /\ ~w.mAllocOp.invalidateAllFlag /\
       w.mAllocOp.fileOffset >= 0 /\
       ~Striper_IsWriteRetryNeeded(s.fw, w.mAllocOp.fileOffset, rc0,
                                   s.fw.mMaxRetryCount, theStatus)
    THEN StartWrite(
           [PutW(s, id, Reset([w EXCEPT !.mErrorCode = theStatus,
                                        !.mAllocOp.invalidateAllFlag = TRUE,
                                        !.mRetryCount = 0]))
              EXCEPT !.g.noRetry = TRUE], id)
    ELSE
        Only([rc \in {rc0 + 1} |->
        Only([wr \in {[w EXCEPT !.mRetryCount = rc, !.nFail = w.nFail + 1]} |->
       IF RetryExhausted(rc, s.fw.mMaxRetryCount)
       THEN     Only([st \in {IF 0 <= theStatus THEN kErrorIo
                      ELSE IF theStatus = kErrorMaxRetryReached /\
                              theLastError < 0
                      THEN theLastError ELSE theStatus} |->
               FatalError(PutW(s, id, Reset([wr EXCEPT !.mErrorCode = st])),
                          st)])
       ELSE
             Only([t0 \in {GetTimeToNextRetry(wr, s.now)} |->
             Only([theTimeToNextRetry \in {
               IF wr.mKeepLeaseFlag
               THEN Min(Max(IF rc <= 1 THEN 0
                            ELSE Max(2, LEASE_INTERVAL_SECS \div
                                        (2 * Max(1, s.fw.mMaxRetryCount))),
                            wr.mLeaseExpireTime - s.now),
                        t0)
               ELSE t0} |->
             Only([w1 \in {SleepW(Reset([wr EXCEPT !.mErrorCode = 0]),
                          theTimeToNextRetry, s.now)} |->
             Only([s1 \in {PutW(s, id, w1)} |->
            IF ~w1.mSleepingFlag THEN ChunkWriter_Timeout(s1, id) ELSE s1])])])])])])])])

\* ChunkWriter::StartWrite
StartWrite(s, id) ==
  IF s.ab \/ ~Has(s, id) THEN s
  ELSE
        Only([w0 \in {W(s, id)} |->
    IF w0.mSleepingFlag /\ ~w0.mLeaseUpdatePendingFlag THEN s
    ELSE
          Only([w1 \in {[(IF w0.mSleepingFlag THEN CancelLeaseUpdate(w0) ELSE w0)
                   EXCEPT !.mLeaseUpdatePendingFlag = FALSE]} |->
          Only([t \in {s.now} |->

      IF w1.mErrorCode # 0 /\ ~w1.mAllocOp.invalidateAllFlag
      THEN PutW(s, id, [(IF w1.mLastOpPtr # "none" THEN Reset(w1) ELSE w1)
                          EXCEPT !.mClosingFlag = FALSE])
      ELSE IF w1.mClosingFlag /\ ~CanWrite(w1)
      THEN
        IF w1.mInFlightQueue # <<>> THEN PutW(s, id, w1)
        ELSE IF w1.mLastOpPtr = "close" THEN PutW(s, id, w1)
        ELSE IF w1.mAllocOp.chunkId > 0
        THEN IF w1.mLastOpPtr # "wid" \/ w1.mCloseOp.chunkId < 0 \/
                0 <= w1.mCloseOp.chunkVersion
             THEN PutW(s, id, CloseChunk(w1, t))
             ELSE PutW(s, id, w1)
        ELSE IF w1.mKeepLeaseFlag
        THEN IF w1.mLastOpPtr \notin {"alloc", "wid"}
             THEN PutW(s, id, AllocateChunk(Reset(w1), t))
             ELSE PutW(s, id, w1)
        ELSE
              Only([w2 \in {CsStop(w1)} |->
              Only([w3 \in {IF w2.mLastOpPtr = "alloc" THEN MetaCancelAlloc(w2) ELSE w2} |->
              Only([w4 \in {[w3 EXCEPT !.mClosingFlag = FALSE,
                               !.mAllocOp.fileOffset = -1,
                               !.mAllocOp.chunkId = -1]} |->
             ChunkWriter_ReportCompletion(PutW(s, id, w4), id, 0, 0).s])])])
      ELSE
            Only([sh1 \in {IF ~CanWrite(w1) THEN SheduleLeaseUpdate(w1, t)
                   ELSE [w |-> w1, ret |-> TRUE]} |->

        IF ~sh1.ret THEN PutW(s, id, sh1.w)
        ELSE
              Only([expired \in {LeaseExpired(w1, t)} |->
              Only([w2 \in {IF expired THEN Reset(w1) ELSE w1} |->
              Only([sh2 \in {IF expired /\ ~CanWrite(w2)
                     THEN SheduleLeaseUpdate(w2, t)
                     ELSE [w |-> w2, ret |-> TRUE]} |->
              Only([w3 \in {sh2.w} |->

          IF ~sh2.ret THEN PutW(s, id, w3)
          ELSE IF w3.mAllocOp.chunkId > 0 /\ w3.mWriteIds
          THEN IF CanWrite(w3)
               THEN     Only([p \in {Write(w3, t)} |->
                    [PutW(s, id, p.w) EXCEPT
                       !.g.passes = s.g.passes + 1,
                       !.g.overtake = s.g.overtake \/ p.over,
                       !.g.held = s.g.held \/ HeldBack(p.w),
                       !.g.unordered = s.g.unordered \/
                          ~InQueueOrder(p.disp, w3.mPendingQueue),
                       !.g.prep = s.g.prep \/ p.disp # <<>>,
                       !.g.stale = s.g.stale \/
                          (p.disp # <<>> /\ ~(t < w3.mLeaseEndTime))]])
               ELSE [PutW(s, id, UpdateLease(w3, t)) EXCEPT
                       !.g.prep = TRUE,
                       !.g.stale = s.g.stale \/ ~(t < w3.mLeaseEndTime)]
          ELSE IF w3.mLastOpPtr = "none"
          THEN PutW(s, id, AllocateChunk(Reset(w3), t))
          ELSE PutW(s, id, w3)])])])])])])])])


(* ------------------- completions of a chunk writer's ops ------------- *)
\* ChunkWriter::OpDone for one of the writer's own ops: the transport lets
\* go of the op and mLastOpPtr is cleared if it points at the op
OpDone(w, what) ==
  [w EXCEPT !.out = w.out \ {what},
            !.mLastOpPtr = IF w.mLastOpPtr = what THEN "none"
                           ELSE w.mLastOpPtr]

\* ChunkWriter::Done(AllocateOp&); hasServers: the reply names chunk servers
Done_AllocateOp(s, id, theStatus, theLastError, hasServers, theVersion, theLeaseDuration) ==
      Only([w \in {OpDone(W(s, id), "alloc")} |->
  IF theStatus # 0 \/ (~hasServers /\ ~w.mAllocOp.invalidateAllFlag)
  THEN HandleError(PutW(s, id, [w EXCEPT !.mAllocOp.chunkId = 0]), id,
                   "alloc", theStatus, theLastError)
  ELSE IF w.mAllocOp.invalidateAllFlag
  THEN     Only([theSize \in {w.mPendingCount} |->
           Only([theOffset \in {IF theSize > 0 THEN w.mAllocOp.fileOffset ELSE 0} |->
           Only([w1 \in {ShutdownW([w EXCEPT !.mAllocOp.invalidateAllFlag = FALSE])} |->
          ChunkWriter_ReportCompletion(PutW(s, id, w1), id,
                                       theOffset, theSize).s])])])
  ELSE
        Only([w1 \in {[w EXCEPT
                 !.mAllocOp.chunkId = 1,
                 !.mAllocOp.chunkVersion = theVersion,
                 !.mAllocOp.chunkLeaseDuration = theLeaseDuration,
                 !.mLeaseEndTime = s.now +
                    (IF theLeaseDuration < 0 THEN kNoLeaseDuration
                     ELSE Max(1, theLeaseDuration - kLeaseRenewTime)),
                 !.mKeepLeaseFlag = theVersion < 0]} |->
       PutW(s, id, AllocateWriteId(UpdateLeaseExpirationTime(w1, s.now),
                                   s.now))])])

\* ChunkWriter::Done(WriteIdAllocOp&)
Done_WriteIdAllocOp(s, id, theStatus) ==
      Only([w \in {[OpDone(W(s, id), "wid") EXCEPT !.mWriteIds = FALSE]} |->
  IF theStatus < 0
  THEN HandleError(PutW(s, id, w), id, "wid", theStatus, 0)
  ELSE StartWrite(
         PutW(s, id, UpdateLeaseExpirationTime(
                        [w EXCEPT !.mWriteIds = TRUE], s.now)), id)])

\* ChunkWriter::Done(WritePrepareOp&), the lease update op
Done_WritePrepareOp(s, id, theStatus) ==
      Only([w \in {OpDone(W(s, id), "lease")} |->
  IF theStatus # 0
  THEN HandleError(PutW(s, id, w), id, "lease", theStatus, 0)
  ELSE StartWrite(PutW(s, id, UpdateLeaseExpirationTime(w, s.now)), id)])

\* ChunkWriter::Done(CloseOp&)
Done_CloseOp(s, id, theStatus) ==
      Only([w \in {OpDone(W(s, id), "close")} |->
  IF theStatus # 0 /\ w.mCloseOp.chunkVersion < 0
  THEN HandleError(PutW(s, id, w), id, "close", theStatus, 0)
  ELSE StartWrite(
         PutW(s, id, Reset([w EXCEPT !.mKeepLeaseFlag = FALSE,
                                     !.mCloseOp.chunkId = -1])), id)])

\* a failed write op taken out of flight and not put back for a retry
DropFailedOp(w, i) ==
  [w EXCEPT !.mInFlightBlocks =
               w.mInFlightBlocks \ OpBlocks(InitBlockRange(w.mInFlightQueue[i])),
            !.mInFlightQueue = RemoveAt(w.mInFlightQueue, i),
            !.mLastOpPtr = IF w.mInFlightQueue[i].last THEN "none"
                           ELSE w.mLastOpPtr]

\* ChunkWriter::Done(WriteOp&) for the i-th op of the in-flight queue,
\* status < 0: the op returns to the tail of the pending queue
FailWriteOp(w, i) ==
      Only([op \in {InitBlockRange(w.mInFlightQueue[i])} |->
  [w EXCEPT !.mInFlightBlocks = w.mInFlightBlocks \ OpBlocks(op),
            !.mInFlightQueue = RemoveAt(w.mInFlightQueue, i),
            !.mPendingQueue = Append(w.mPendingQueue,
                                     [op EXCEPT !.last = FALSE]),
            !.mLastOpPtr = IF op.last THEN "none" ELSE w.mLastOpPtr]])

\* the offset of the chunk instead of the offset of the op
ChunkStart(op) == 0

\* theOffset = inOp.mWritePrepareOp.offset (the op's offset in the chunk)
AckOffset(op) == op.offset

\* an acknowledged write op that leaves its blocks in flight
AckKeepBlocks(w, i) ==
      Only([op \in {InitBlockRange(w.mInFlightQueue[i])} |->
  [w EXCEPT !.mPendingCount = w.mPendingCount - op.size,
            !.mInFlightQueue = RemoveAt(w.mInFlightQueue, i),
            !.mLastOpPtr = IF op.last THEN "none" ELSE w.mLastOpPtr,
            !.lastAck = op.offset]])

\* ChunkWriter::Done(WriteOp&) for the i-th op of the in-flight queue,
\* status >= 0: the op leaves the in-flight queue, its blocks are no longer
\* in flight and its bytes no longer pending
AckWriteOp(w, i) ==
      Only([op \in {InitBlockRange(w.mInFlightQueue[i])} |->
  [w EXCEPT !.mInFlightBlocks = w.mInFlightBlocks \ OpBlocks(op),
            !.mPendingCount = w.mPendingCount - op.size,
            !.mInFlightQueue = RemoveAt(w.mInFlightQueue, i),
            !.mLastOpPtr = IF op.last THEN "none" ELSE w.mLastOpPtr,
            !.lastAck = op.offset]])

\* ChunkWriter::Done(WriteOp&) for the i-th op of the in-flight queue
Done_WriteOp(s, id, i, theStatus) ==
      Only([w \in {W(s, id)} |->
      Only([op \in {InitBlockRange(w.mInFlightQueue[i])} |->
     IF theStatus < 0
     THEN HandleError(PutW(s, id, FailWriteOp(w, i)), id, "write",
                      theStatus, 0)
     ELSE
           Only([theOffset \in {AckOffset(op)} |->
           Only([theDoneCount \in {op.size} |->
           Only([base \in {w.mAllocOp.fileOffset + op.offset} |->
           Only([w1 \in {AckWriteOp(w, i)} |->
           Only([s1 \in {[PutW(s, id, w1) EXCEPT
                    !.g.owed = s.g.owed - theDoneCount,
                    !.g.unacked = [b \in DOMAIN s.g.unacked |->
                       IF s.g.clean /\ b \in base .. (base + op.size - 1)
                       THEN s.g.unacked[b] - 1 ELSE s.g.unacked[b]],
                    !.g.ackDown = op.offset < w.lastAck,
                    !.g.acked = <<op.offset, op.size>>]} |->
           Only([r \in {ChunkWriter_ReportCompletion(s1, id, theOffset, theDoneCount)} |->
          IF ~r.ret \/ r.s.ab THEN r.s
          ELSE StartWrite(
                 PutW(r.s, id, UpdateLeaseExpirationTime(W(r.s, id), s.now)),
                 id)])])])])])])])])

(* ----------------------- Impl: the progress loop --------------------- *)
\* Impl::QueueWrite(IOBuffer&, Offset, Offset, int): r.s the state, r.n the
\* number of bytes queued
Impl_QueueWriteBuffer(s, inSize, inOffset, inWriteThreshold) ==
  IF inSize <= 0 \/ s.fw.mBuffer <= 0 THEN [s |-> s, n |-> 0]
  ELSE
        Only([theFileOffset \in {inOffset - (inOffset % CHUNKSIZE)} |->
        Only([found \in {{i \in 1..Len(s.ws) : GetFileOffset(s.ws[i]) = theFileOffset}} |->
       IF found # {}
       THEN     Only([i \in {CHOOSE k \in found : \A j \in found : k <= j} |->
                Only([w \in {[s.ws[i] EXCEPT !.mClosingFlag = FALSE]} |->
                Only([s1 \in {[s EXCEPT
                         !.ws = <<w>> \o RemoveAt(s.ws, i),
                         !.g.reuse =
                            {x \in {"closing"} : s.ws[i].mClosingFlag} \cup
                            {x \in {"sleeping"} : s.ws[i].mSleepingFlag} \cup
                            {x \in {"retrying"} : s.ws[i].mRetryCount > 0}]} |->
               ChunkWriter_QueueWrite(s1, w.id, inSize, inOffset,
                                      inWriteThreshold)])])])
       ELSE     Only([id \in {FreshId(s)} |->
                Only([s1 \in {[s EXCEPT !.ws = <<ChunkWriter(id)>> \o s.ws]} |->
               ChunkWriter_QueueWrite(s1, id, inSize, inOffset,
                                      inWriteThreshold)])])])])

\* Impl::StartQueuedWrite
StartQueuedWrite(s, inQueuedCount) ==
  IF inQueuedCount <= 0 \/ s.ab THEN s
  ELSE StartWrite([s EXCEPT !.fw.mPendingCount =
                              s.fw.mPendingCount + inQueuedCount],
                  s.ws[1].id)

\* Impl::QueueWrite(Offset) without a striper
QueueWriteSelf(s, inWriteThreshold) ==
      Only([r \in {Impl_QueueWriteBuffer(s, s.fw.mBuffer, s.fw.mOffset,
                                 inWriteThreshold)} |->
     IF r.n > 0 /\ ~r.s.ab
     THEN StartQueuedWrite([r.s EXCEPT !.fw.mOffset = r.s.fw.mOffset + r.n],
                           r.n)
     ELSE r.s])

\* Striper::Process: the staged bytes are passed through, by the calls of
\* Impl::QueueWrite(IOBuffer&, ...) and Impl::StartQueuedWrite that the
\* default path makes; r.s the state, r.ret the error code
Striper_Process(s, inWriteThreshold) ==
  [s |-> QueueWriteSelf(s, inWriteThreshold), ret |-> 0]

\* Impl::QueueWrite(Offset)
Impl_QueueWrite(s, inWriteThreshold) ==
  IF s.fw.mStriperPtr # NoStriper
  THEN     Only([r \in {Striper_Process(
                  [s EXCEPT !.fw.mStriperProcessCount =
                               s.fw.mStriperProcessCount + 1],
                  inWriteThreshold)} |->
           Only([s1 \in {[r.s EXCEPT !.fw.mStriperProcessCount =
                                    r.s.fw.mStriperProcessCount - 1]} |->
          IF r.ret # 0 /\ s1.fw.mErrorCode = 0
          THEN [s1 EXCEPT !.fw.mErrorCode = r.ret] ELSE s1])])
  ELSE QueueWriteSelf(s, inWriteThreshold)

\* Impl::StartWrite, the loop that queues the staged bytes
RECURSIVE QueueLoop(_, _, _)
QueueLoop(s, theWriteThreshold, theQueueWriteThreshold) ==
  IF ~s.ab /\ s.fw.mErrorCode = 0 /\
     (mMaxPendingThreshold <= s.fw.mBuffer \/
      theWriteThreshold <= GetPendingSizeSelf(s.fw))
  THEN     Only([s1 \in {Impl_QueueWrite(s, theQueueWriteThreshold)} |->
       IF s1.fw.mBuffer = 0 \/ s1.ab THEN s1
       ELSE QueueLoop(s1, theWriteThreshold, theQueueWriteThreshold)])
  ELSE s

\* Impl::StartWrite, the loop that closes every open chunk writer
RECURSIVE CloseLoop(_)
CloseLoop(s) ==
      Only([open \in {{i \in 1..Len(s.ws) : IsOpenW(s.ws[i])}} |->
  IF s.ab \/ open = {} THEN s
  ELSE CloseLoop(ChunkWriter_Close(
         s, s.ws[CHOOSE k \in open : \A j \in open : k <= j].id))])

\* Impl::StartWrite: r.s the state, r.ret the result
Impl_StartWrite(s, inFlushFlag) ==
  IF s.fw.mSleepingFlag THEN [s |-> s, ret |-> s.fw.mErrorCode]
  ELSE
        Only([theFlushFlag \in {inFlushFlag \/ s.fw.mClosingFlag} |->
        Only([theWriteThreshold \in {
          Max(1, IF theFlushFlag THEN 1 ELSE s.fw.mWriteThreshold)} |->
        Only([theQueueWriteThreshold \in {Min(mMaxPendingThreshold, theWriteThreshold)} |->
        Only([s1 \in {QueueLoop(s, theWriteThreshold, theQueueWriteThreshold)} |->
        Only([s2 \in {IF ~s1.fw.mClosingFlag \/ s1.ab THEN s1
              ELSE IF s1.ws = <<>> THEN ReportCompletion(s1, NoWriter, 0, 0).s
              ELSE     Only([s3 \in {CloseLoop(s1)} |->
                   IF s3.ws = <<>> /\ s3.fw.mClosingFlag /\ ~s3.ab
                   THEN SetFileSize(s3) ELSE s3])} |->
       [s |-> s2, ret |-> s2.fw.mErrorCode]])])])])])

\* Impl::Timeout
Impl_Timeout(s) ==
  Impl_StartWrite([s EXCEPT !.fw.mSleepingFlag = FALSE, !.fw.wakeAt = 0],
                  FALSE).s

\* Impl::OpDone: the completion of the truncate op
Impl_OpDone(s, theStatus, theLastError) ==
      Only([s0 \in {[s EXCEPT !.fw.mTruncateOp.fid = -1]} |->
  IF theStatus # 0
  THEN     Only([rc \in {s0.fw.mRetryCount + 1} |->
           Only([s1 \in {[s0 EXCEPT !.fw.mTruncateOp.fileOffset = -1,
                            !.fw.mRetryCount = rc,
                            !.g.truncBack = s0.g.truncBack + 1]} |->
          IF rc < s.fw.mMaxRetryCount
          THEN     Only([s2 \in {Sleep(s1, Max(IF rc > 1 THEN 1 ELSE 0,
                                       mTimeSecBetweenRetries -
                                         (s.now - s.fw.mOpStartTime)))} |->
                  IF ~s2.fw.mSleepingFlag
                  THEN Impl_StartWrite(s2, FALSE).s ELSE s2])
          ELSE FatalError(s1, IF theStatus = kErrorMaxRetryReached /\
                                 theLastError < 0
                              THEN theLastError ELSE theStatus)])])
  ELSE ReportCompletion([s0 EXCEPT !.fw.mRetryCount = 0], NoWriter, 0, 0).s])


(* ------------------------- the public interface ---------------------- *)
\* the value of g.term while no terminal completion was delivered since Open
NoTerminal == 1

Neg(e) == IF e < 0 THEN e ELSE -e

\* Impl::Open (the file name is valid and is the same in every call)
Impl_OpenStriped(s, inFileId, inFileSize, inStriperType, inReplicaCount) ==
  IF inFileId <= 0 THEN [s |-> s, ret |-> kErrorParameters]
  ELSE IF inReplicaCount = 0 /\ inFileSize # 0
  THEN [s |-> s, ret |-> kErrorSeek]
  ELSE IF s.fw.mFileId > 0
  THEN [s |-> s, ret |-> IF inFileId = s.fw.mFileId THEN s.fw.mErrorCode
                         ELSE kErrorParameters]
  ELSE IF IsOpen(s.fw) /\ s.fw.mErrorCode # 0
  THEN [s |-> s, ret |-> Neg(s.fw.mErrorCode)]
  ELSE IF s.fw.mClosingFlag \/ s.fw.mSleepingFlag
  THEN [s |-> s, ret |-> kErrorTryAgain]
  ELSE Impl_StartWrite(
         [s EXCEPT !.fw.mStriperPtr = Striper_Create(inStriperType),
                   !.fw.mBuffer = 0,
                   !.fw.mReplicaCount = inReplicaCount,
                   !.fw.mFileSize = inFileSize,
                   !.fw.mErrorCode = 0,
                   !.fw.mFileId = inFileId,
                   !.fw.mTruncateOp = [fid |-> -1, fileOffset |-> inFileSize],
                   !.fw.mRetryCount = 0,
                   !.g.term = NoTerminal,
                   !.g.how = "open",
                   !.g.trunc = 0,
                   !.g.truncBack = 0,
                   !.g.more = 0,
                   !.g.unacked = [b \in 0..(MaxFilePos - 1) |-> 0]],
         FALSE)

\* Impl::Open with inStriperType = KFS_STRIPED_FILE_TYPE_NONE
Impl_Open(s, inFileId, inFileSize, inReplicaCount) ==
  Impl_OpenStriped(s, inFileId, inFileSize, NoStriper, inReplicaCount)

\* a Flush that reports a completion
FlushReport(s) ==
  [s |-> ReportCompletion(Impl_StartWrite(s, TRUE).s, NoWriter, 0, 0).s,
   ret |-> 0]

\* a Flush that queues nothing
FlushNothing(s) == [s |-> s, ret |-> 0]

\* a Flush that returns 0 whatever the error code
FlushOk(s) == [s |-> Impl_StartWrite(s, TRUE).s, ret |-> 0]

\* Impl::Flush
Impl_Flush(s) ==
      Only([r \in {Impl_StartWrite(s, TRUE)} |->    [s |-> r.s, ret |-> Neg(r.ret)]])

\* a Close that starts the close again when one is under way
CloseAgain(s) ==
  IF ~IsOpen(s.fw) THEN [s |-> s, ret |-> 0]
  ELSE IF s.fw.mErrorCode # 0 THEN [s |-> s, ret |-> s.fw.mErrorCode]
  ELSE Impl_StartWrite([s EXCEPT !.fw.mClosingFlag = TRUE], FALSE)

\* Impl::Close
Impl_Close(s) ==
  IF ~IsOpen(s.fw) THEN [s |-> s, ret |-> 0]
  ELSE IF s.fw.mErrorCode # 0 THEN [s |-> s, ret |-> s.fw.mErrorCode]
  ELSE IF s.fw.mClosingFlag THEN [s |-> s, ret |-> kErrorTryAgain]
  ELSE Impl_StartWrite([s EXCEPT !.fw.mClosingFlag = TRUE], FALSE)

\* the next queued offset, the staged bytes left out
QueuedOffset(f) == f.mOffset

\* Impl::Write, the place of a sequential write:
\* mOffset + mBuffer.BytesConsumable()
Cursor(f) == f.mOffset + f.mBuffer

\* Impl::Write, from the point where the bytes are appended to mBuffer
Stage(s, inLength, inOffset, inFlushFlag, inWriteThreshold) ==
      Only([s1 \in {[s EXCEPT !.fw.mBuffer = s.fw.mBuffer + inLength,
                      !.fw.mWriteThreshold =
                         IF inWriteThreshold >= 0 THEN inWriteThreshold
                         ELSE s.fw.mWriteThreshold]} |->
      Only([r \in {Impl_StartWrite(s1, inFlushFlag)} |->
     [s |-> r.s, ret |-> IF r.ret = 0 THEN inLength ELSE Neg(r.ret)]])])

\* a Write that does not look at the closing flag and the error code
WriteUnchecked(s, inLength, inOffset, inFlushFlag, inWriteThreshold) ==
  IF inOffset < 0 \/ inLength <= 0 \/ ~IsOpen(s.fw)
  THEN [s |-> s, ret |-> kErrorParameters]
  ELSE Stage([s EXCEPT !.fw.mOffset = inOffset - s.fw.mBuffer],
             inLength, inOffset, inFlushFlag, inWriteThreshold)

\* Impl::Write
Impl_Write(s, inLength, inOffset, inFlushFlag, inWriteThreshold) ==
  IF inOffset < 0 THEN [s |-> s, ret |-> kErrorParameters]
  ELSE IF s.fw.mErrorCode # 0 THEN [s |-> s, ret |-> Neg(s.fw.mErrorCode)]
  ELSE IF s.fw.mClosingFlag \/ ~IsOpen(s.fw)
  THEN [s |-> s, ret |-> kErrorParameters]
  ELSE IF inLength <= 0
  THEN \* ReportCompletion(0, inLength, inOffset): inWriterPtr = 0,
       \* inOffset = inLength, inSize = inOffset
           Only([r \in {ReportCompletion(s, NoWriter, inLength, inOffset)} |->
       IF r.ret /\ inFlushFlag /\ ~r.s.ab THEN Impl_StartWrite(r.s, TRUE)
       ELSE [s |-> r.s, ret |-> 0]])
  ELSE IF inOffset # Cursor(s.fw)
  THEN IF s.fw.mReplicaCount = 0 THEN [s |-> s, ret |-> kErrorSeek]
       ELSE     Only([r \in {Impl_Flush(s)} |->
            IF r.ret < 0 \/ r.s.ab THEN r
            ELSE Stage([r.s EXCEPT !.fw.mOffset = inOffset],
                       inLength, inOffset, inFlushFlag, inWriteThreshold)])
  ELSE Stage(s, inLength, inOffset, inFlushFlag, inWriteThreshold)

\* Impl::SetWriteThreshold
Impl_SetWriteThreshold(s, inThreshold) ==
      Only([theThreshold \in {Max(0, inThreshold)} |->
      Only([theStartWriteFlag \in {s.fw.mWriteThreshold > theThreshold} |->
      Only([s1 \in {[s EXCEPT !.fw.mWriteThreshold = theThreshold]} |->
     IF theStartWriteFlag /\ IsOpen(s.fw) /\ s.fw.mErrorCode = 0
     THEN Impl_StartWrite(s1, FALSE)
     ELSE [s |-> s1, ret |-> s1.fw.mErrorCode]])])])

\* ~ChunkWriter() (ChunkWriter::Shutdown) leaves an op of the writer on a
\* transport or its timer set
LeftBehind(w) ==
  \E w1 \in {ShutdownW(w)} :
     w1.out # {} \/ w1.mInFlightQueue # <<>> \/ w1.mSleepingFlag

\* Impl::Stop
Impl_Stop(s) ==
  [s EXCEPT !.ws = <<>>,
            !.g.leak = \E i \in 1..Len(s.ws) : LeftBehind(s.ws[i]),
            !.fw.mTruncateOp =
               IF s.fw.mTruncateOp.fid >= 0
               THEN [fid |-> -1, fileOffset |-> -1] ELSE s.fw.mTruncateOp,
            !.fw.mSleepingFlag = FALSE, !.fw.wakeAt = 0,
            !.fw.mClosingFlag = FALSE,
            !.fw.mBuffer = 0,
            !.g.how = "stop",
            !.g.truncBack = IF s.fw.mTruncateOp.fid >= 0
                            THEN s.g.truncBack + 1 ELSE s.g.truncBack]

\* Impl::Shutdown
Impl_Shutdown(s) ==
  [Impl_Stop(s) EXCEPT !.fw.mFileId = -1, !.fw.mErrorCode = 0,
                       !.g.how = "shutdown"]

(* ------------------------------ the system --------------------------- *)
\* Impl::Impl
Impl(inMaxRetryCount) ==
  [mMaxRetryCount |-> inMaxRetryCount,
   mFileId |-> -1, mClosingFlag |-> FALSE, mSleepingFlag |-> FALSE,
   wakeAt |-> 0, mErrorCode |-> 0,
   mWriteThreshold |-> Max(0, cfgWriteThreshold),
   mPendingCount |-> 0, mReplicaCount |-> -1, mRetryCount |-> 0,
   mFileSize |-> 0, mOffset |-> 0, mBuffer |-> 0,
   mTruncateOp |-> [fid |-> -1, fileOffset |-> 0],
   mOpStartTime |-> 0, mCompletionDepthCount |-> 0,
   mStriperPtr |-> NoStriper, mStriperProcessCount |-> 0]

\* the history before the first call
\* dones: the Completion::Done calls of the last step (error code, offset,
\* size); term: the error code of the terminal completion since Open;
\* owed: bytes handed to chunk writers less bytes acknowledged;
\* unacked[b]: how often file offset b was accepted by Write less how often
\* it was acknowledged; more: bytes accepted by Write less the sizes passed
\* to Completion::Done, both since Open; clean: neither Stop nor Shutdown
\* was called; trunc, truncBack: the truncate ops enqueued and the
\* truncate ops that failed or were cancelled since Open; nf, ne: failed completions and
\* other events spent so far.  Of the last step: passes, the passes of
\* ChunkWriter::Write(); overtake, a pass enqueued an op behind an op it
\* left pending; held, a pass left an op pending whose next block was
\* free; prep, a write prepare op was enqueued; stale, one was enqueued at
\* or after mLeaseEndTime; ackDown, the acknowledged op's offset is below
\* the offset of the writer's previous acknowledgement; acked, the offset
\* and size of the write op a chunk server acknowledged; unordered, a pass
\* enqueued ops in another order than the pending queue held them; was,
\* the file writer's error code before the step; how, the step opened the
\* file ("open") or was a Stop ("stop") or a Shutdown ("shutdown");
\* closing, the closing flag before the step; fin, the step delivered the
\* terminal completion; tr, the truncate op completed: ok or not, and
\* mRetryCount before; noRetry, HandleError asked the striper and was told
\* that no retry is needed; reapBusy, reapKept, TryToCloseIdle closed or
\* deleted a writer that was not idle, closed a writer it has to keep
\* (see Reaping); jump, Write accepted bytes away from the cursor
\* while bytes were staged; straddle, Write accepted bytes of two chunks and
\* queued them all; leak, Stop destroyed a chunk writer that left an
\* op on a transport or a timer set; fail, the op of a chunk
\* writer that failed in the step, with the writer's retry count and
\* pending count before, and whether the writer was closing an object
\* store block (stable)
NoHistory ==
  [dones |-> <<>>, term |-> NoTerminal,
   owed |-> 0, unacked |-> [b \in 0..(MaxFilePos - 1) |-> 0], more |-> 0,
   clean |-> TRUE, nf |-> 0, ne |-> 0, trunc |-> 0, truncBack |-> 0,
   was |-> 0, how |-> "", fail |-> <<>>, closing |-> FALSE, fin |-> FALSE,
   leak |-> FALSE, straddle |-> FALSE, jump |-> FALSE,
   reapBusy |-> FALSE, reapKept |-> FALSE, tr |-> <<>>, noRetry |-> FALSE,
   reuse |-> {}, hang |-> FALSE,
   passes |-> 0, overtake |-> FALSE, held |-> FALSE, prep |-> FALSE,
   stale |-> FALSE, ackDown |-> FALSE, acked |-> <<>>, unordered |-> FALSE]

\* the state after construction with one of the given max retry counts
InitOf(theMaxRetryCounts) ==
  /\ \E inMaxRetryCount \in theMaxRetryCounts : fw = Impl(inMaxRetryCount)
  /\ ws = <<>>
  /\ now = 0
  /\ g = NoHistory
  /\ aborted = FALSE

Init == InitOf(0..MaxRetry)

\* the state a handler starts from: what is recorded of the last step is
\* cleared
Start ==
  [Cur EXCEPT !.g.dones = <<>>, !.g.passes = 0, !.g.overtake = FALSE,
              !.g.held = FALSE, !.g.prep = FALSE, !.g.stale = FALSE,
              !.g.ackDown = FALSE, !.g.acked = <<>>, !.g.unordered = FALSE,
              !.g.was = fw.mErrorCode, !.g.how = "", !.g.fail = <<>>,
              !.g.closing = fw.mClosingFlag, !.g.fin = FALSE,
              !.g.leak = FALSE, !.g.straddle = FALSE,
              !.g.jump = FALSE, !.g.reapBusy = FALSE, !.g.reapKept = FALSE,
              !.g.tr = <<>>, !.g.noRetry = FALSE,
              !.g.reuse = {}]

\* Stop and Shutdown end the history of accepted and acknowledged bytes
Unclean(s) ==
  [s EXCEPT !.g.clean = FALSE, !.g.more = 0, !.g.ne = s.g.ne + 1,
            !.g.unacked = [b \in 0..(MaxFilePos - 1) |-> 0]]

\* the handler returned at time t, or a QCRTASSERT ended the process:
\* nothing of the process is left
CommitAt(r, t) ==
  \E s \in {r} :
  IF s.ab
  THEN /\ aborted' = TRUE
       /\ fw' = Impl(fw.mMaxRetryCount)
       /\ ws' = <<>>
       /\ now' = 0
       /\ g' = NoHistory
  ELSE /\ fw' = s.fw
       /\ ws' = s.ws
       /\ g' = s.g
       /\ now' = t
       /\ UNCHANGED aborted

Commit(r) ==
  \E s \in {r} :
  IF s.ab
  THEN /\ aborted' = TRUE
       /\ fw' = Impl(fw.mMaxRetryCount)
       /\ ws' = <<>>
       /\ now' = 0
       /\ g' = NoHistory
  ELSE /\ fw' = s.fw
       /\ ws' = s.ws
       /\ g' = s.g
       /\ UNCHANGED <<now, aborted>>

Failed(s) == [s EXCEPT !.g.nf = s.g.nf + 1]

\* the state a handler starts from when an op of chunk writer w fails
FailedOn(w, what, theStatus) ==
  [Failed(Start) EXCEPT
     !.g.fail = [id |-> w.id, what |-> what, status |-> theStatus,
                 rc |-> w.mRetryCount, pend |-> w.mPendingCount,
                 stable |-> w.mClosingFlag /\ 0 < w.mCloseOp.chunkId /\
                            w.mKeepLeaseFlag]]

\* the environment has an event left to spend, and may fail a completion
Spare == g.ne < (IF g.nf = 0 THEN MaxEvents ELSE MaxEvents - 1)
MayFail == g.nf < MaxFailures /\ g.ne < MaxEvents

\* a call that took effect is an event spent
Spent(s) == IF s.fw = fw /\ s.ws = ws THEN s
            ELSE [s EXCEPT !.g.ne = s.g.ne + 1]

\* the arguments of Open: file id, file size, replica count
OpenArgs == {<<0, 0, 1>>, <<1, 1, 0>>, <<1, 0, 0>>, <<1, 0, 1>>}
\* the arguments of Write: length, offset (Cursor as well), flush flag,
\* write threshold
WriteLengths == {0, 1, MaxWriteLen}
WriteOffsets == {-1, 0, 1, CHUNKSIZE}
\* the history of accepted bytes after Write returned r.ret
Accepted(r, inOffset) ==
  IF r.ret > 0
  THEN [r.s EXCEPT
          !.g.straddle = /\ (inOffset % CHUNKSIZE) + r.ret > CHUNKSIZE
                         /\ r.s.fw.mBuffer = 0,
          !.g.jump = fw.mBuffer > 0 /\ inOffset # Cursor(fw),
          !.g.more = IF r.s.g.clean THEN r.s.g.more + r.ret ELSE 0,
          !.g.unacked = [b \in DOMAIN r.s.g.unacked |->
             IF r.s.g.clean /\ b \in inOffset .. (inOffset + r.ret - 1)
             THEN r.s.g.unacked[b] + 1
             ELSE r.s.g.unacked[b]]]
  ELSE r.s

Open ==
  /\ ~aborted
  /\ \E a \in OpenArgs :
       Commit(Impl_Open(Start, a[1], a[2], a[3]).s)

Write_ ==
  /\ ~aborted
  /\ Spare
  /\ \E inLength \in WriteLengths,
        inOffset \in WriteOffsets \cup {Cursor(fw)},
        inFlushFlag \in BOOLEAN :
       /\ inOffset + inLength <= MaxFilePos
       /\ Commit(Spent(Accepted(
            Impl_Write(Start, inLength, inOffset, inFlushFlag, -1),
            inOffset)))

Flush ==
  /\ ~aborted
  /\ Commit(Impl_Flush(Start).s)

Close ==
  /\ ~aborted
  /\ Commit(Impl_Close(Start).s)

SetWriteThreshold ==
  /\ ~aborted
  /\ Spare
  /\ \E inThreshold \in {1} :
       Commit(Spent(Impl_SetWriteThreshold(Start, inThreshold).s))

Stop ==
  /\ ~aborted
  /\ Spare
  /\ Commit(Unclean(Impl_Stop(Start)))

Shutdown ==
  /\ ~aborted
  /\ Spare
  /\ Commit(Unclean(Impl_Shutdown(Start)))

\* the meta server answers an allocation: a chunk with a lease
AllocOk ==
  /\ ~aborted
  /\ \E i \in 1..Len(ws), theLeaseDuration \in {-1, LEASE_INTERVAL_SECS} :
       /\ "alloc" \in ws[i].out
       /\ Commit(Done_AllocateOp(Start, ws[i].id, 0, 0, TRUE,
                                 IF fw.mReplicaCount = 0 THEN -1 ELSE 1,
                                 theLeaseDuration))

\* the statuses (status, lastError) of a failed allocation
AllocFailures ==
  {<<0, 0>>, <<kErrorNoEntry, 0>>, <<kErrorReadOnly, 0>>,
   <<kErrorMaxRetryReached, kErrorIo>>}

\* the meta server fails an allocation, or answers without chunk servers
AllocFail ==
  /\ ~aborted
  /\ MayFail
  /\ \E i \in 1..Len(ws), f \in AllocFailures :
       /\ "alloc" \in ws[i].out
       /\ Commit(Done_AllocateOp(FailedOn(ws[i], "alloc", f[1]),
                                 ws[i].id, f[1], f[2],
                                 FALSE, -1, -1))

\* the completion of the writer's write id allocation, lease update or
\* close op with a status
ChunkOpDone(s, w, what, theStatus) ==
  /\ what \in w.out
  /\ Commit(IF what = "wid" THEN Done_WriteIdAllocOp(s, w.id, theStatus)
            ELSE IF what = "lease"
            THEN Done_WritePrepareOp(s, w.id, theStatus)
            ELSE Done_CloseOp(s, w.id, theStatus))

\* a chunk server answers one of these ops
ChunkOpOk ==
  /\ ~aborted
  /\ \E i \in 1..Len(ws), what \in {"wid", "lease", "close"} :
       ChunkOpDone(Start, ws[i], what, 0)

\* a chunk server, or the connection to it, fails one of these ops
ChunkOpFail ==
  /\ ~aborted
  /\ MayFail
  /\ \E i \in 1..Len(ws), what \in {"wid", "lease", "close"} :
       ChunkOpDone(FailedOn(ws[i], what, kErrorIo), ws[i], what, kErrorIo)

\* a chunk server acknowledges a write op, in any order
WriteOk ==
  /\ ~aborted
  /\ \E i \in 1..Len(ws) : \E k \in 1..Len(ws[i].mInFlightQueue) :
       Commit(Done_WriteOp(Start, ws[i].id, k, 0))

\* a write op fails
WriteFail ==
  /\ ~aborted
  /\ MayFail
  /\ \E i \in 1..Len(ws) : \E k \in 1..Len(ws[i].mInFlightQueue) :
       Commit(Done_WriteOp(FailedOn(ws[i], "write", kErrorIo),
                           ws[i].id, k, kErrorIo))

\* the state Impl::OpDone starts from, the completion noted in the history
TruncateDone(ok) ==
  [Start EXCEPT !.g.tr = [ok |-> ok, rc |-> fw.mRetryCount]]

\* the meta server answers the truncate op
TruncateOk ==
  /\ ~aborted
  /\ fw.mTruncateOp.fid >= 0
  /\ Commit(Impl_OpDone(TruncateDone(TRUE), 0, 0))

\* the truncate op fails
TruncateFail ==
  /\ ~aborted
  /\ MayFail
  /\ fw.mTruncateOp.fid >= 0
  /\ Commit(Impl_OpDone(Failed(TruncateDone(FALSE)), kErrorIo, 0))

\* the handler starts at time t
StartAt(t) == [Start EXCEPT !.now = t]

\* mSleepTimer of a chunk writer fires (ChunkWriter::EventHandler), now or
\* when the time it is set for has come
WriterTimeout ==
  /\ ~aborted
  /\ \E i \in 1..Len(ws) :
       /\ ws[i].mSleepingFlag
       /\ ws[i].wakeAt <= MaxTime
       /\ \E t \in {Max(now, ws[i].wakeAt)} :
            CommitAt(ChunkWriter_Timeout(StartAt(t), ws[i].id), t)

\* the file writer's timer fires (Impl::Timeout)
ImplTimeout ==
  /\ ~aborted
  /\ fw.mSleepingFlag
  /\ fw.wakeAt <= MaxTime
  /\ \E t \in {Max(now, fw.wakeAt)} :
       CommitAt(Impl_Timeout(StartAt(t)), t)

\* time passes
Tick ==
  /\ ~aborted
  /\ Spare
  /\ now + TickSecs <= MaxTime
  /\ now' = now + TickSecs
  /\ g' = [g EXCEPT !.ne = g.ne + 1, !.was = fw.mErrorCode, !.how = "",
                     !.fail = <<>>, !.closing = fw.mClosingFlag,
                     !.fin = FALSE, !.tr = <<>>, !.noRetry = FALSE,
                     !.reuse = {}]
  /\ UNCHANGED <<fw, ws, aborted>>

Next ==
  \/ Open \/ Write_ \/ Flush \/ Close \/ SetWriteThreshold \/ Stop \/ Shutdown
  \/ AllocOk \/ AllocFail \/ ChunkOpOk \/ ChunkOpFail
  \/ WriteOk \/ WriteFail \/ TruncateOk \/ TruncateFail
  \/ WriterTimeout \/ ImplTimeout \/ Tick

Spec == Init /\ [][Next]_vars

\* the same program while no op fails and the application neither stops
\* nor shuts the writer down; every op a transport holds completes and
\* every timer that is set fires
NextLive ==
  \/ Open \/ Write_ \/ Flush \/ Close
  \/ AllocOk \/ ChunkOpOk \/ WriteOk \/ TruncateOk
  \/ WriterTimeout

LiveSpec ==
  /\ InitOf({MaxRetry})
  /\ [][NextLive]_vars
  /\ WF_vars(AllocOk) /\ WF_vars(ChunkOpOk) /\ WF_vars(WriteOk)
  /\ WF_vars(TruncateOk) /\ WF_vars(WriterTimeout)


\* the same program with one more Write call, while no op fails, the clock
\* stands still and the application calls Open, Write and Flush only
WriteMore ==
  /\ ~aborted
  /\ g.ne <= MaxEvents
  /\ \E inLength \in WriteLengths,
        inOffset \in WriteOffsets \cup {Cursor(fw)},
        inFlushFlag \in BOOLEAN :
       /\ inOffset + inLength <= MaxFilePos
       /\ Commit(Spent(Accepted(
            Impl_Write(Start, inLength, inOffset, inFlushFlag, -1),
            inOffset)))

NextQueue ==
  \/ Open \/ WriteMore \/ Flush
  \/ AllocOk \/ ChunkOpOk \/ WriteOk

QueueSpec == InitOf({MaxRetry}) /\ [][NextQueue]_vars

\* the same program with one more Write call and allocations that fail
\* whatever the number of calls made, while the application calls Open
\* and Write only and no other op completes
AllocFailMore ==
  /\ ~aborted
  /\ g.nf < MaxFailures
  /\ \E i \in 1..Len(ws), f \in AllocFailures :
       /\ "alloc" \in ws[i].out
       /\ Commit(Done_AllocateOp(FailedOn(ws[i], "alloc", f[1]),
                                 ws[i].id, f[1], f[2],
                                 FALSE, -1, -1))

NextAlloc ==
  \/ Open \/ WriteMore
  \/ AllocOk \/ AllocFailMore \/ WriterTimeout

AllocSpec == Init /\ [][NextAlloc]_vars

\* the same program for a file opened with a striper
OpenStriped ==
  /\ ~aborted
  /\ \E inStriperType \in Stripers :
       Commit(Impl_OpenStriped(Start, 1, 0, inStriperType, 1).s)

\* one more Write call, of no bytes, whatever the number of calls made
WriteNoBytes ==
  /\ ~aborted
  /\ g.ne <= MaxEvents
  /\ \E inOffset \in WriteOffsets, inFlushFlag \in BOOLEAN :
       Commit(Spent(Accepted(
         Impl_Write(Start, 0, inOffset, inFlushFlag, -1), inOffset)))

NextStriped ==
  \/ OpenStriped \/ Write_ \/ WriteNoBytes \/ Flush \/ Close
  \/ AllocOk \/ AllocFail \/ ChunkOpOk \/ ChunkOpFail
  \/ WriteOk \/ WriteFail \/ TruncateOk
  \/ WriterTimeout

StripedSpec == InitOf({MaxRetry}) /\ [][NextStriped]_vars

\* the constructor alone: the arguments it is given, then the writer it
\* leaves
CtorArgs ==
  [inMaxRetryCount : 0..MaxRetry,
   inWriteThreshold : -1..MaxCfgWriteThreshold,
   inMaxWriteSize : -1..MaxCfgWriteSize]

CtorInit ==
  /\ fw \in CtorArgs
  /\ ws = <<>>
  /\ now = 0
  /\ g = NoHistory
  /\ aborted = FALSE

\* Impl::Impl, with mMaxWriteSize and the argument it is computed from
Construct ==
  /\ fw \in CtorArgs
  /\ fw' = [Impl(fw.inMaxRetryCount) EXCEPT
              !.mWriteThreshold = Max(0, fw.inWriteThreshold)] @@
           [mMaxWriteSize |-> MaxWriteSize(fw.inMaxWriteSize),
            inMaxWriteSize |-> fw.inMaxWriteSize]
  /\ UNCHANGED <<ws, now, g, aborted>>

NextCtor == Construct

CtorSpec == CtorInit /\ [][NextCtor]_vars

(* ------------------------------ properties --------------------------- *)
\* C1: when the terminal completion of a close carries error code 0, and
\* neither Stop nor Shutdown was called,
\* every byte a Write call accepted lies in a write op a chunk server
\* acknowledged, and the sizes passed to Completion::Done add up to the
\* byte counts the Write calls returned
C1_NoAcceptedByteLost ==
  (g.clean /\ g.term = 0) =>
     /\ \A b \in DOMAIN g.unacked : g.unacked[b] = 0
     /\ g.more = 0

\* a close completed without error after a write op had failed and had been
\* retried
C1_Witness ==
  /\ g.clean /\ g.term = 0 /\ ~IsOpen(fw)
  /\ g.nf > 0 /\ g.ne = 1 /\ fw.mOffset > 0

\* the checksum blocks [offset / block size, ceil((offset + size) / block
\* size)) of an op
BlocksOf(op) ==
  (op.offset \div CHECKSUM_BLOCKSIZE) ..
  ((op.offset + op.size + CHECKSUM_BLOCKSIZE - 1) \div CHECKSUM_BLOCKSIZE - 1)

\* C2: for every chunk writer and every checksum block b, at most one op of
\* the in-flight queue has b in its block range
C2_BlockExclusive ==
  \A i \in 1..Len(ws) : \A b \in 0..(BlocksPerChunk - 1) :
     Cardinality({k \in 1..Len(ws[i].mInFlightQueue) :
                    b \in BlocksOf(ws[i].mInFlightQueue[k])}) <= 1

\* an op waits in the pending queue for a block that an op in flight holds
C2_Witness ==
  \E i \in 1..Len(ws) :
     \E k \in 1..Len(ws[i].mInFlightQueue), j \in 1..Len(ws[i].mPendingQueue) :
        BlocksOf(ws[i].mInFlightQueue[k]) \cap
        BlocksOf(ws[i].mPendingQueue[j]) # {}

\* C3: while no op has failed, the file writer's pending count is the
\* number of bytes handed to chunk writers less the number of bytes
\* acknowledged, and it is not negative
C3_PendingCount ==
  g.nf = 0 => (fw.mPendingCount = g.owed /\ fw.mPendingCount >= 0)

\* C4: after the terminal completion of a close with error code 0, the file
\* being not open, the pending count is 0 and GetPendingSize() is 0
C4_NothingPendingAfterClose ==
  (g.term = 0 /\ ~IsOpen(fw)) =>
     (fw.mPendingCount = 0 /\ GetPendingSize(fw) = 0)

\* C5: once Close has put an open writer without error into closing, the
\* terminal completion is delivered, the file is not open, no chunk writer
\* is left and the meta server holds no truncate op
C5_CloseCompletes ==
  (IsOpen(fw) /\ fw.mClosingFlag /\ fw.mErrorCode = 0)
    ~> (g.term # NoTerminal /\ ~IsOpen(fw) /\ ws = <<>> /\
        fw.mTruncateOp.fid < 0)

\* C6 as stated: no pass of ChunkWriter::Write() enqueues an op that stood
\* behind an op the pass left pending
C6_NoOvertaking == ~g.overtake

\* C6: a pass of ChunkWriter::Write() enqueues ops in the order the pending
\* queue held them, and every op it leaves pending waits for a block that is
\* in flight (the ops behind such an op are not held back by it)
C6_PassOrder == ~g.unordered /\ ~g.held

\* a pass left an op pending and enqueued an op that stood behind it
C6_Witness == g.overtake /\ ~g.held /\ g.passes > 0

\* C7 as stated: the offsets a chunk writer reports for acknowledged write
\* ops never decrease
C7_AckOffsetsAscend == ~g.ackDown

\* C7: the acknowledgement of a write op is reported when it arrives, with
\* the chunk offset and the size of the acknowledged op
C7_AckReported ==
  g.acked # <<>> =>
     /\ g.dones # <<>>
     /\ Head(g.dones)[2] = g.acked[1]
     /\ Head(g.dones)[3] = g.acked[2]

\* an acknowledgement arrived for an op below the one acknowledged before
C7_Witness == g.acked # <<>> /\ g.ackDown /\ g.dones # <<>>

\* the write ops of a chunk writer
OpsOf(w) ==
  {w.mPendingQueue[k] : k \in 1..Len(w.mPendingQueue)} \cup
  {w.mInFlightQueue[k] : k \in 1..Len(w.mInFlightQueue)}

\* C8 as stated: no write op is enqueued more than max retry count + 1
\* times
C8_EnqueueBound ==
  \A i \in 1..Len(ws) : \A op \in OpsOf(ws[i]) :
     op.nEnq <= fw.mMaxRetryCount + 1

\* C8: a chunk writer sees at most max retry count + 1 failures in a row
\* (without a completion reported in between), and with the last of them it
\* is in error
C8_FailureBound ==
  \A i \in 1..Len(ws) :
     /\ ws[i].nFail <= fw.mMaxRetryCount + 1
     /\ ws[i].nFail > fw.mMaxRetryCount => ws[i].mErrorCode # 0

\* an op is in flight again after the chunk writer saw a failure
C8_Witness ==
  \E i \in 1..Len(ws) :
     /\ ws[i].nFail > 0 /\ ws[i].mErrorCode = 0
     /\ \E k \in 1..Len(ws[i].mInFlightQueue) :
          ws[i].mInFlightQueue[k].nEnq > 1

\* C9: whenever a write prepare op (a write op or a lease update) is
\* enqueued, the time is before the chunk writer's mLeaseEndTime
C9_LeaseFresh == ~g.stale

\* a write op was enqueued under a lease that ends
C9_Witness ==
  /\ g.prep
  /\ \E i \in 1..Len(ws) :
       /\ ws[i].mLeaseEndTime < kNoLeaseDuration
       /\ ws[i].mInFlightQueue # <<>>

\* what Write returns and leaves for a length, an offset and a flush flag
WriteResult(inLength, inOffset, inFlushFlag) ==
  Impl_Write(Start, inLength, inOffset, inFlushFlag, -1)

\* Write returned SEEK and changed nothing
SeekOnly(r) ==
  /\ r.ret = kErrorSeek
  /\ ~r.s.ab /\ r.s.fw = fw /\ r.s.ws = ws /\ r.s.g.dones = <<>>

\* C10 as stated: on a file opened with replica count 0 every Write at an
\* offset other than mOffset + mBuffer returns SEEK and changes nothing
C10_SeekAlways ==
  (IsOpen(fw) /\ fw.mReplicaCount = 0) =>
     \A inLength \in WriteLengths, inOffset \in WriteOffsets,
        inFlushFlag \in BOOLEAN :
        inOffset # fw.mOffset + fw.mBuffer =>
           SeekOnly(WriteResult(inLength, inOffset, inFlushFlag))

\* C10: on an open file with replica count 0 that is neither closing nor in
\* error, every Write of length > 0 at an offset >= 0 other than
\* mOffset + mBuffer returns SEEK and changes nothing
C10_Seek ==
  (IsOpen(fw) /\ fw.mReplicaCount = 0 /\ ~fw.mClosingFlag /\
   fw.mErrorCode = 0) =>
     \A inLength \in WriteLengths, inOffset \in WriteOffsets,
        inFlushFlag \in BOOLEAN :
        (inLength > 0 /\ inOffset >= 0 /\
         inOffset # fw.mOffset + fw.mBuffer) =>
           SeekOnly(WriteResult(inLength, inOffset, inFlushFlag))

\* an object store file with staged bytes and a chunk writer, where a
\* Write at the queued offset returns SEEK
C10_Witness ==
  /\ IsOpen(fw) /\ fw.mReplicaCount = 0 /\ ~fw.mClosingFlag
  /\ fw.mErrorCode = 0 /\ fw.mBuffer > 0 /\ ws # <<>>
  /\ SeekOnly(WriteResult(1, fw.mOffset, TRUE))

\* C11 as stated: when a close has ended without error the truncate op was
\* enqueued at most once since Open, and once when the replica count is
\* greater than 0
C11_TruncateOnce ==
  g.term = 0 => (g.trunc <= 1 /\ (fw.mReplicaCount > 0 => g.trunc = 1))

\* C11: without a striper no truncate op is enqueued for a file with a
\* replica count other than 0; for an object store file it is enqueued
\* once and once more after every truncate op that failed or that Stop
\* cancelled, and a close that ended without error at a file size above 0
\* enqueued it
C11_TruncateCommit ==
  /\ fw.mReplicaCount # 0 => g.trunc = 0
  /\ g.trunc <= g.truncBack + 1
  /\ (g.term = 0 /\ fw.mReplicaCount = 0 /\ fw.mOffset > 0) => g.trunc >= 1

\* a close ended without error after the truncate op had failed and had
\* been enqueued again
C11_Witness ==
  /\ g.term = 0 /\ ~IsOpen(fw) /\ fw.mReplicaCount = 0
  /\ g.trunc = 2 /\ g.clean /\ g.nf > 0

\* Open arguments that Open's own checks accept
ValidOpenArgs ==
  {a \in OpenArgs : a[1] > 0 /\ ~(a[3] = 0 /\ a[2] # 0)}

\* the Write, Flush and SetWriteThreshold calls with the given Write
\* offsets return the error code
ReturnsError(theOffsets) ==
  /\ \A inLength \in WriteLengths, inFlushFlag \in BOOLEAN,
        inOffset \in theOffsets :
        WriteResult(inLength, inOffset, inFlushFlag).ret = fw.mErrorCode
  /\ Impl_Flush(Start).ret = fw.mErrorCode
  /\ \A inThreshold \in {0, 1, cfgWriteThreshold + 1} :
        Impl_SetWriteThreshold(Start, inThreshold).ret = fw.mErrorCode
  /\ Impl_Close(Start).ret = fw.mErrorCode

\* C12 as stated: a non-zero error code of the file writer stays as it is
\* in every step but Shutdown, and Open, Write, Flush, Close and
\* SetWriteThreshold return it
C12_LatchedUntilShutdown ==
  /\ g.was # 0 => (fw.mErrorCode = g.was \/ g.how = "shutdown")
  /\ fw.mErrorCode # 0 =>
       /\ ReturnsError(WriteOffsets)
       /\ \A a \in ValidOpenArgs \cup {<<fw.mFileId + 1, 0, 1>>} :
            Impl_Open(Start, a[1], a[2], a[3]).ret = fw.mErrorCode

\* C12: a non-zero error code of the file writer stays as it is in every
\* step but Shutdown, and the file stays open and is not closing; Write at
\* an offset >= 0, Flush, Close, SetWriteThreshold and Open of the open
\* file return the error code; Write at a negative offset and Open of
\* another file return the parameters error
C12_ErrorLatched ==
  /\ g.was # 0 => (fw.mErrorCode = g.was \/ g.how = "shutdown")
  /\ fw.mErrorCode # 0 =>
       /\ IsOpen(fw) /\ ~fw.mClosingFlag
       /\ ReturnsError({o \in WriteOffsets : o >= 0})
       /\ \A a \in ValidOpenArgs :
            Impl_Open(Start, a[1], a[2], a[3]).ret =
              IF a[1] = fw.mFileId THEN fw.mErrorCode ELSE kErrorParameters
       /\ Impl_Open(Start, fw.mFileId + 1, 0, 1).ret = kErrorParameters
       /\ \A inLength \in WriteLengths, inFlushFlag \in BOOLEAN :
            WriteResult(inLength, -1, inFlushFlag).ret = kErrorParameters

\* the error code is latched and a step has been taken since
C12_Witness ==
  fw.mErrorCode # 0 /\ g.was = fw.mErrorCode /\ IsOpen(fw) /\ ws # <<>>

\* an op of a chunk writer failed in the last step while the writer's
\* retry count was below the max retry count
FailedWithinRetries == g.fail # <<>> /\ g.fail.rc < fw.mMaxRetryCount

\* the failure of the last step left no trace for the caller: the error
\* code is what it was, no Completion::Done was called, and the chunk
\* writer is there with its pending bytes, without error, asleep until the
\* retry or with an op enqueued again
Invisible ==
  /\ fw.mErrorCode = g.was
  /\ g.dones = <<>>
  /\ \E i \in 1..Len(ws) :
       /\ ws[i].id = g.fail.id
       /\ ws[i].mErrorCode = 0
       /\ ws[i].mPendingCount = g.fail.pend
       /\ ws[i].mSleepingFlag \/ ws[i].out # {} \/
          ws[i].mInFlightQueue # <<>>

\* C13 as stated: the failure of any chunk writer op below the max retry
\* count is retried and invisible to the caller
C13_AnyFailureInvisible == FailedWithinRetries => Invisible

\* C13: the failure of a chunk writer op below the max retry count, other
\* than an allocation that failed with NO_ENTRY or with the transport's
\* "all attempts failed" status, or with READ_ONLY while the writer closes
\* an object store block, and other than the close of a replicated chunk,
\* is retried and invisible to the caller
C13_TransientInvisible ==
  (FailedWithinRetries /\
   ~(g.fail.what = "alloc" /\
     g.fail.status \in {kErrorNoEntry, kErrorMaxRetryReached}) /\
   ~(g.fail.what = "alloc" /\ g.fail.status = kErrorReadOnly /\
     g.fail.stable) /\
   ~(g.fail.what = "close" /\ fw.mReplicaCount # 0)) => Invisible

\* a write op failed below the max retry count and waits for its retry
C13_Witness ==
  /\ FailedWithinRetries /\ g.fail.what = "write"
  /\ \E i \in 1..Len(ws) :
       /\ ws[i].id = g.fail.id /\ ws[i].mSleepingFlag
       /\ ws[i].mPendingQueue # <<>>

\* C14: while the file writer is closing, every Write call returns a
\* negative error code and changes nothing: no byte is accepted, the
\* staging buffer and the cursor are as before
C14_NoWriteWhileClosing ==
  fw.mClosingFlag =>
     \A inLength \in WriteLengths, inFlushFlag \in BOOLEAN,
        inOffset \in WriteOffsets \cup {fw.mOffset + fw.mBuffer} :
        \E r \in {WriteResult(inLength, inOffset, inFlushFlag)} :
           /\ r.ret < 0
           /\ ~r.s.ab /\ r.s.fw = fw /\ r.s.ws = ws /\ r.s.g.dones = <<>>

\* a close is under way with bytes not yet acknowledged
C14_Witness ==
  fw.mClosingFlag /\ IsOpen(fw) /\ ws # <<>> /\ fw.mPendingCount > 0

\* Close called while a close is under way returns TRY_AGAIN and changes
\* nothing
CloseAgainRefused ==
  (fw.mClosingFlag /\ IsOpen(fw)) =>
     \E r \in {Impl_Close(Start)} :
        /\ r.ret = kErrorTryAgain
        /\ ~r.s.ab /\ r.s.fw = fw /\ r.s.ws = ws /\ r.s.g.dones = <<>>

\* C15 as stated: Close called while a close is under way returns TRY_AGAIN
\* and changes nothing, and only a step that delivers the terminal
\* completion ends the closing state
C15_OnlyTerminalEndsClosing ==
  /\ CloseAgainRefused
  /\ (g.closing /\ ~fw.mClosingFlag) => g.fin

\* C15: Close called while a close is under way returns TRY_AGAIN and
\* changes nothing, and the closing state ends with the terminal
\* completion, with a fatal error, or with Stop or Shutdown
C15_ClosingEnds ==
  /\ CloseAgainRefused
  /\ (g.closing /\ ~fw.mClosingFlag) =>
        \/ g.fin
        \/ g.how \in {"stop", "shutdown"}
        \/ (g.was = 0 /\ fw.mErrorCode # 0)

\* a step was taken while the close was under way, and it still is
C15_Witness ==
  g.closing /\ fw.mClosingFlag /\ IsOpen(fw) /\ ws # <<>>

\* C16: Open with valid arguments while a close is under way, or while the
\* file writer sleeps before a retry, returns TRY_AGAIN and changes nothing
C16_OpenTryAgain ==
  (fw.mClosingFlag \/ fw.mSleepingFlag) =>
     \A a \in ValidOpenArgs :
        \E r \in {Impl_Open(Start, a[1], a[2], a[3])} :
           /\ r.ret = kErrorTryAgain
           /\ ~r.s.ab /\ r.s.fw = fw /\ r.s.ws = ws /\ r.s.g.dones = <<>>

\* C17: in every state of the running program, after Stop there is no chunk writer, no op of the
\* writer on a transport, no timer set, the sleeping and closing flags are
\* clear and the staging buffer is empty; the file id and the error code
\* are as before
C17_StopPostcondition ==
  ~aborted =>
  \E r \in {Impl_Stop(Start)} :
     /\ ~r.ab /\ r.ws = <<>> /\ ~r.g.leak
     /\ r.fw.mTruncateOp.fid < 0
     /\ ~r.fw.mSleepingFlag /\ ~r.fw.mClosingFlag
     /\ r.fw.mBuffer = 0
     /\ r.fw.mFileId = fw.mFileId /\ r.fw.mErrorCode = fw.mErrorCode

\* Stop was called during a close with bytes not yet acknowledged
C17_Witness ==
  g.how = "stop" /\ g.closing /\ g.owed > 0 /\ ws = <<>>

\* Shutdown, then Open with the arguments a, then Write of inLength bytes at
\* theOffset: Open returns 0, the file is open and free of error, and the
\* Write returns its length
Reopened(a, inLength, theOffset, inFlushFlag) ==
  \E o \in {Impl_Open(Impl_Shutdown(Start), a[1], a[2], a[3])} :
     /\ o.ret = 0 /\ ~o.s.ab
     /\ IsOpen(o.s.fw) /\ o.s.fw.mErrorCode = 0
     /\ Impl_Write(o.s, inLength, theOffset, inFlushFlag, -1).ret = inLength

\* C18: in every state of the running program, Shutdown followed by Open
\* with valid arguments returns 0 with the file open and free of error, and
\* a following Write of length > 0 at the opened file size is accepted and
\* returns its length
C18_ReusableAfterShutdown ==
  ~aborted =>
     \A a \in ValidOpenArgs, inLength \in WriteLengths \ {0},
        inFlushFlag \in BOOLEAN :
        a[2] + inLength <= MaxFilePos =>
           Reopened(a, inLength, a[2], inFlushFlag)

\* the sum of the pending byte counts of the chunk writers of the list
RECURSIVE WritersPending(_)
WritersPending(theWriters) ==
  IF theWriters = <<>> THEN 0
  ELSE Head(theWriters).mPendingCount + WritersPending(Tail(theWriters))

\* C19: in every state of the running program GetPendingSize() is the
\* number of bytes in the staging buffer plus the sum of the pending byte
\* counts of the chunk writers in the writer list
C19_PendingSize ==
  ~aborted => GetPendingSize(fw) = fw.mBuffer + WritersPending(ws)

\* the write ops of the chunk writers, (writer, queue, index), that hold the
\* byte at file offset b: the writer's allocation is at theFileOffset and
\* the op covers theChunkOffset
Holders(b, theFileOffset, theChunkOffset) ==
  {h \in (1..Len(ws)) \X {"p", "f"} \X (1..MaxFilePos) :
     /\ ws[h[1]].mAllocOp.fileOffset = theFileOffset
     /\ \E q \in {IF h[2] = "p" THEN ws[h[1]].mPendingQueue
                  ELSE ws[h[1]].mInFlightQueue} :
           /\ h[3] <= Len(q)
           /\ q[h[3]].offset <= theChunkOffset
           /\ theChunkOffset < q[h[3]].offset + q[h[3]].size}

\* the write ops that hold the byte at file offset b, whatever the writer
AllHolders(b) ==
  UNION {Holders(b, theFileOffset, b - theFileOffset) :
           theFileOffset \in (b - CHUNKSIZE + 1) .. b}

\* C20: every op of a chunk writer lies within one chunk and every
\* allocation is at a multiple of the chunk size; while neither Stop nor
\* Shutdown was called and no error is latched, each byte accepted at file
\* offset o and not yet acknowledged is either in the staging buffer or in
\* a write op at chunk offset o mod chunk size of the chunk writer whose
\* allocation file offset is o - (o mod chunk size), and in no other
C20_ChunkRouting ==
  /\ \A i \in 1..Len(ws) :
        /\ ws[i].mAllocOp.fileOffset >= 0 =>
              ws[i].mAllocOp.fileOffset % CHUNKSIZE = 0
        /\ \A op \in OpsOf(ws[i]) :
              /\ ws[i].mAllocOp.fileOffset >= 0
              /\ op.size > 0 /\ op.offset >= 0
              /\ op.offset + op.size <= CHUNKSIZE
  /\ (g.clean /\ fw.mErrorCode = 0 /\ ~aborted) =>
        \A b \in DOMAIN g.unacked :
           /\ AllHolders(b) = Holders(b, b - (b % CHUNKSIZE), b % CHUNKSIZE)
           /\ g.unacked[b] =
                 Cardinality(Holders(b, b - (b % CHUNKSIZE), b % CHUNKSIZE)) +
                 (IF b \in fw.mOffset .. (fw.mOffset + fw.mBuffer - 1)
                  THEN 1 ELSE 0)

\* one Write crossed a chunk boundary: the writer of each of the two chunks
\* holds an op, the first up to the end of its chunk and the second from the
\* start of its chunk
C20_Witness ==
  /\ g.straddle /\ g.clean /\ fw.mErrorCode = 0 /\ ~aborted
  /\ \E i, j \in 1..Len(ws) :
        /\ ws[i].mAllocOp.fileOffset = 0
        /\ ws[j].mAllocOp.fileOffset = CHUNKSIZE
        /\ \E op \in OpsOf(ws[i]) : op.offset + op.size = CHUNKSIZE
        /\ \E op \in OpsOf(ws[j]) : op.offset = 0

\* the write ops of the chunk writers of a list, (writer, queue, index),
\* that hold the byte at file offset b at its place: chunk offset b mod
\* chunk size of the writer allocated at b - (b mod chunk size)
HoldersIn(theWriters, b) ==
  {h \in (1..Len(theWriters)) \X {"p", "f"} \X (1..MaxFilePos) :
     /\ theWriters[h[1]].mAllocOp.fileOffset = b - (b % CHUNKSIZE)
     /\ \E q \in {IF h[2] = "p" THEN theWriters[h[1]].mPendingQueue
                  ELSE theWriters[h[1]].mInFlightQueue} :
           /\ h[3] <= Len(q)
           /\ q[h[3]].offset <= b % CHUNKSIZE
           /\ b % CHUNKSIZE < q[h[3]].offset + q[h[3]].size}

\* the Write of inLength bytes at inOffset, away from the cursor: f is the
\* state after the flush in it, r its result.  The flush hands every staged
\* byte to a chunk writer at its file offset; the new bytes are staged or
\* queued from inOffset on
FlushedThenStaged(f, r, inLength, inOffset) ==
  /\ f.ret = 0 /\ f.s.fw.mBuffer = 0
  /\ f.s.fw.mOffset = fw.mOffset + fw.mBuffer
  /\ f.s.g.owed = g.owed + fw.mBuffer
  /\ \A b \in fw.mOffset .. (fw.mOffset + fw.mBuffer - 1) :
        Cardinality(HoldersIn(f.s.ws, b)) = Cardinality(HoldersIn(ws, b)) + 1
  /\ r.ret = inLength
  /\ r.s.fw.mOffset >= inOffset
  /\ Cursor(r.s.fw) = inOffset + inLength
  /\ r.s.g.owed = f.s.g.owed + (r.s.fw.mOffset - inOffset)
  /\ \A b \in inOffset .. (r.s.fw.mOffset - 1) :
        Cardinality(HoldersIn(r.s.ws, b)) =
        Cardinality(HoldersIn(f.s.ws, b)) + 1

\* C21: on an open file with a replica count other than 0, neither closing
\* nor in error, a Write of length > 0 at an offset >= 0 other than
\* mOffset + mBuffer first hands every staged byte to a chunk writer at its
\* own file offset, and then stages the new bytes and queues them from the
\* given offset on
C21_FlushBeforeJump ==
  (IsOpen(fw) /\ fw.mReplicaCount # 0 /\ ~fw.mClosingFlag /\
   fw.mErrorCode = 0 /\ ~aborted) =>
     \A inLength \in WriteLengths \ {0},
        inOffset \in {o \in WriteOffsets : o >= 0},
        inFlushFlag \in BOOLEAN :
        (inOffset # Cursor(fw) /\ inOffset + inLength <= MaxFilePos) =>
           \E f \in {Impl_Flush(Start)} :
           \E r \in {WriteResult(inLength, inOffset, inFlushFlag)} :
              ~r.s.ab => FlushedThenStaged(f, r, inLength, inOffset)

\* a Write away from the cursor was accepted while bytes were staged, and
\* the bytes staged before are in write ops
C21_Witness ==
  /\ g.jump /\ g.clean /\ fw.mReplicaCount > 0 /\ fw.mErrorCode = 0
  /\ ~aborted /\ g.owed > Cursor(fw) - fw.mOffset
  /\ \E b \in DOMAIN g.unacked :
        b < fw.mOffset /\ g.unacked[b] > 0 /\ HoldersIn(ws, b) # {}

\* offset and length of the op are multiples of the checksum block size
Aligned(op) ==
  op.offset % CHECKSUM_BLOCKSIZE = 0 /\ op.size % CHECKSUM_BLOCKSIZE = 0

\* C22 as stated: of the write ops of a chunk writer, every op that has an
\* op before it and an op after it in the chunk has its offset and its
\* length at multiples of the checksum block size
C22_MiddleOpsAligned ==
  \A i \in 1..Len(ws) : \A op \in OpsOf(ws[i]) :
     (\E lo, hi \in OpsOf(ws[i]) :
         lo.offset < op.offset /\ op.offset < hi.offset) => Aligned(op)

\* C22: every write op of a chunk writer either has its offset and its
\* length at multiples of the checksum block size or lies within one
\* checksum block
C22_OpAlignment ==
  \A i \in 1..Len(ws) : \A op \in OpsOf(ws[i]) :
     \/ Aligned(op)
     \/ (op.offset % CHECKSUM_BLOCKSIZE) + op.size <= CHECKSUM_BLOCKSIZE

\* a chunk writer holds an op within one checksum block, not aligned,
\* between two other ops
C22_Witness ==
  \E i \in 1..Len(ws) : \E op \in OpsOf(ws[i]) :
     /\ ~Aligned(op)
     /\ \E lo, hi \in OpsOf(ws[i]) :
           lo.offset < op.offset /\ op.offset < hi.offset

DisjointOrEqual(a, b) ==
  OpBlocks(a) \cap OpBlocks(b) = {} \/ OpBlocks(a) = OpBlocks(b)

\* C24 as stated: the checksum block ranges of any two write ops of one
\* chunk writer are disjoint or equal
C24_BlockRangesDisjointOrEqual ==
  \A i \in 1..Len(ws) : \A a, b \in OpsOf(ws[i]) : DisjointOrEqual(a, b)

\* C24: in an object store file (replica count 0), where every Write is
\* sequential, the checksum block ranges of any two write ops of one chunk
\* writer are disjoint or equal; in any file two ops of one chunk writer
\* that are both in flight have disjoint ranges
C24_BlockRanges ==
  \A i \in 1..Len(ws) :
     /\ fw.mReplicaCount = 0 =>
           \A a, b \in OpsOf(ws[i]) : DisjointOrEqual(a, b)
     /\ \A k, j \in 1..Len(ws[i].mInFlightQueue) :
           k # j => OpBlocks(ws[i].mInFlightQueue[k]) \cap
                    OpBlocks(ws[i].mInFlightQueue[j]) = {}

\* a chunk writer of a replicated file holds two ops with overlapping,
\* different block ranges, one of them in flight
C24_Witness ==
  \E i \in 1..Len(ws) :
     \E a \in OpsOf(ws[i]) :
     \E k \in 1..Len(ws[i].mInFlightQueue) :
        /\ fw.mReplicaCount > 0
        /\ ~DisjointOrEqual(a, ws[i].mInFlightQueue[k])

\* C25 as stated: for every chunk writer the allocation chunk id is
\* positive if and only if the write ids are populated
C25_ChunkIdIffWriteIds ==
  \A i \in 1..Len(ws) : (ws[i].mAllocOp.chunkId > 0) <=> ws[i].mWriteIds

\* Reset and CloseChunk leave the writer without a chunk id and without
\* write ids
ClearedTogether(w) ==
  /\ \E r \in {Reset(w)} : r.mAllocOp.chunkId <= 0 /\ ~r.mWriteIds
  /\ w.mAllocOp.chunkId > 0 =>
        \E c \in {CloseChunk(w, now)} :
           c.mAllocOp.chunkId <= 0 /\ ~c.mWriteIds /\ "close" \in c.out

\* C25: a chunk writer whose write ids are populated has a positive
\* allocation chunk id; a writer with a positive chunk id and no write ids
\* has its write id allocation outstanding; Reset and the dispatch of the
\* close op clear both
C25_WriteIdsNeedChunk ==
  ~aborted =>
  \A i \in 1..Len(ws) :
     /\ ws[i].mWriteIds => ws[i].mAllocOp.chunkId > 0
     /\ (ws[i].mAllocOp.chunkId > 0 /\ ~ws[i].mWriteIds) =>
           "wid" \in ws[i].out
     /\ ClearedTogether(ws[i])

\* a chunk writer has its chunk and waits for the write ids
C25_Witness ==
  \E i \in 1..Len(ws) :
     /\ ws[i].mAllocOp.chunkId > 0 /\ ~ws[i].mWriteIds
     /\ "wid" \in ws[i].out

\* the chunk writer id is closing and its pending queue is empty
ClosingIdle(id) ==
  /\ ~aborted
  /\ \E i \in 1..Len(ws) :
        ws[i].id = id /\ ws[i].mClosingFlag /\ ws[i].mPendingQueue = <<>>

\* the chunk writer id has ended its close: the closing flag and the
\* allocation file offset are clear, or the writer was deleted after it
\* reported the completion
CloseEnded(id) ==
  /\ ~aborted
  /\ \A i \in 1..Len(ws) :
        ws[i].id = id =>
           (~ws[i].mClosingFlag /\ ws[i].mAllocOp.fileOffset < 0)

\* C26: while every op a transport holds completes and every timer fires, a
\* chunk writer that is closing with an empty pending queue ends its close:
\* it clears its closing flag and its allocation file offset and reports
\* the completion
C26_WriterCloseConverges ==
  \A id \in 0..MaxChunks : ClosingIdle(id) ~> CloseEnded(id)

TruncateRetried ==
  /\ fw.mErrorCode = 0 /\ g.dones = <<>>
  /\ fw.mClosingFlag /\ IsOpen(fw)
  /\ fw.mRetryCount = g.tr.rc + 1
  /\ (fw.mTruncateOp.fid >= 0) # fw.mSleepingFlag

\* C28 as stated: a truncate op that fails for at most the max retry
\* count-th time is retried
C28_RetriedMaxRetryTimes ==
  (g.tr # <<>> /\ ~g.tr.ok /\ g.tr.rc + 1 <= fw.mMaxRetryCount) =>
     TruncateRetried

\* C28: a truncate op that fails is retried, at once or when the retry
\* timer fires, while the number of its failures is below the max retry
\* count; otherwise the failure status is latched as the error code and
\* the completion is called with it, the file left open and no longer
\* closing; a truncate op that succeeds is followed by the terminal
\* completion with error code 0
C28_TruncateRetry ==
  /\ (g.tr # <<>> /\ ~g.tr.ok /\ ~aborted) =>
        IF g.tr.rc + 1 < fw.mMaxRetryCount
        THEN /\ TruncateRetried
             /\ fw.mSleepingFlag =>
                   Impl_Timeout(Start).fw.mTruncateOp.fid >= 0
        ELSE /\ fw.mErrorCode = kErrorIo /\ ~fw.mClosingFlag /\ IsOpen(fw)
             /\ g.dones = <<<<kErrorIo, 0, 0>>>>
             /\ fw.mTruncateOp.fid < 0 /\ ~fw.mSleepingFlag
  /\ (g.tr # <<>> /\ g.tr.ok /\ ~aborted) =>
        /\ g.fin /\ g.term = 0 /\ ~IsOpen(fw) /\ ~fw.mClosingFlag
        /\ fw.mErrorCode = 0 /\ fw.mRetryCount = 0
        /\ fw.mTruncateOp.fid < 0

\* a truncate op failed for the second time, with max retry count 2, and the
\* error is latched
C28_Witness ==
  /\ g.tr # <<>> /\ ~g.tr.ok /\ g.tr.rc = 1 /\ fw.mMaxRetryCount = 2
  /\ fw.mErrorCode = kErrorIo /\ ~aborted

\* Flush from the state s returns 0, reports no completion and leaves the
\* file writer, the chunk writers and the bytes handed out as they are
FlushIsNoOp(s) ==
  \E f \in {Impl_Flush(s)} :
     /\ f.ret = 0 /\ ~f.s.ab
     /\ f.s.fw = s.fw /\ f.s.ws = s.ws
     /\ f.s.g.dones = s.g.dones /\ f.s.g.owed = s.g.owed

\* C29: on an open file, neither closing nor in error, a Flush with an empty
\* staging buffer returns 0 and changes nothing; and after a Flush that
\* returned 0 and left the file open, not closing and free of error, the
\* staging buffer is empty and another Flush changes nothing
C29_FlushIdempotent ==
  (IsOpen(fw) /\ ~fw.mClosingFlag /\ fw.mErrorCode = 0 /\ ~aborted) =>
     /\ fw.mBuffer = 0 => FlushIsNoOp(Start)
     /\ \E f \in {Impl_Flush(Start)} :
           (f.ret = 0 /\ ~f.s.ab /\ IsOpen(f.s.fw) /\
            ~f.s.fw.mClosingFlag /\ f.s.fw.mErrorCode = 0) =>
              (f.s.fw.mBuffer = 0 /\ FlushIsNoOp(f.s))

\* an open file with an empty staging buffer and a chunk writer that holds a
\* pending op behind a block in flight
C29_Witness ==
  /\ IsOpen(fw) /\ ~fw.mClosingFlag /\ fw.mErrorCode = 0 /\ ~aborted
  /\ fw.mBuffer = 0
  /\ \E i \in 1..Len(ws) :
        ws[i].mPendingQueue # <<>> /\ ws[i].mInFlightQueue # <<>>

\* an allocation has just completed with NO_ENTRY
AllocNoEntry ==
  /\ ~aborted /\ g.fail # <<>>
  /\ g.fail.what = "alloc" /\ g.fail.status = kErrorNoEntry

\* C30 as stated: the file writer's error code and the code of the completion
\* callback are NO_ENTRY after every allocation that completed with NO_ENTRY
C30_FileErrorNoEntry ==
  AllocNoEntry =>
     /\ fw.mErrorCode = kErrorNoEntry
     /\ \E i \in 1..Len(g.dones) : g.dones[i][1] = kErrorNoEntry

\* C30: an allocation that completes with NO_ENTRY, whatever the retry count
\* and the max retry count, leaves its chunk writer, unless deleted, in error
\* NO_ENTRY with no retry timer set, no op enqueued and the retry count as it
\* was; the file writer's error code is NO_ENTRY if it had none and the
\* error it had otherwise, and the completion callback is invoked once, with
\* the file writer's error code; the file stays open and is not closing
C30_AllocNoEntryFatal ==
  AllocNoEntry =>
     /\ \A i \in 1..Len(ws) : ws[i].id = g.fail.id =>
           /\ ws[i].mErrorCode = kErrorNoEntry
           /\ ~ws[i].mSleepingFlag
           /\ ws[i].out = {}
           /\ ws[i].mRetryCount = g.fail.rc
     /\ fw.mErrorCode = (IF g.was = 0 THEN kErrorNoEntry ELSE g.was)
     /\ g.dones = << <<fw.mErrorCode, 0, 0>> >>
     /\ IsOpen(fw) /\ ~fw.mClosingFlag /\ ~fw.mSleepingFlag

\* an allocation completed with NO_ENTRY after a failure that was retried,
\* with a retry left; its chunk writer is still there
C30_Witness ==
  /\ AllocNoEntry
  /\ 0 < g.fail.rc /\ g.fail.rc < fw.mMaxRetryCount
  /\ \E i \in 1..Len(ws) : ws[i].id = g.fail.id

\* chunk writer w keeps a lease alive: it holds a chunk id and write ids,
\* has no data to send and sleeps until mLeaseExpireTime
KeepsLease(w) ==
  /\ w.mKeepLeaseFlag /\ w.mErrorCode = 0
  /\ 0 < w.mAllocOp.chunkId /\ w.mWriteIds
  /\ ~CanWrite(w)
  /\ w.mSleepingFlag /\ w.mLeaseUpdatePendingFlag

\* the times at which the sleep timer of w can fire
FireTimes(w) == Max(now, w.wakeAt)..(MaxTime + TickSecs)

FailedNoRetry == ~aborted /\ g.fail # <<>> /\ g.noRetry

Constructed == fw \notin CtorArgs

\* C33 as stated: the max write size in effect is the largest multiple of
\* the checksum block size not above the configured one, or the chunk size
\* if that is smaller, and never exceeds the configured one
C33_RoundedDown ==
  (Constructed /\ fw.inMaxWriteSize >= 0) =>
     /\ fw.mMaxWriteSize % CHECKSUM_BLOCKSIZE = 0
     /\ fw.mMaxWriteSize <= CHUNKSIZE
     /\ fw.mMaxWriteSize <= fw.inMaxWriteSize
     /\ fw.mMaxWriteSize = CHUNKSIZE \/
        fw.inMaxWriteSize - fw.mMaxWriteSize < CHECKSUM_BLOCKSIZE

\* C33: the max write size in effect is the least multiple of the checksum
\* block size not below the configured one, 0 if that is negative, or the
\* chunk size if that is smaller; it is below the configured one only if
\* that is above the chunk size
C33_RoundedUp ==
  Constructed =>
     /\ fw.mMaxWriteSize % CHECKSUM_BLOCKSIZE = 0
     /\ 0 <= fw.mMaxWriteSize /\ fw.mMaxWriteSize <= CHUNKSIZE
     /\ fw.inMaxWriteSize <= CHUNKSIZE =>
           /\ fw.mMaxWriteSize >= fw.inMaxWriteSize
           /\ fw.mMaxWriteSize - fw.inMaxWriteSize < CHECKSUM_BLOCKSIZE \/
              (fw.inMaxWriteSize < 0 /\ fw.mMaxWriteSize = 0)
     /\ fw.inMaxWriteSize > CHUNKSIZE => fw.mMaxWriteSize = CHUNKSIZE

\* a configured max write size that is not a multiple of the checksum block
\* size, and the max write size in effect above it
C33_Witness ==
  /\ Constructed
  /\ fw.inMaxWriteSize % CHECKSUM_BLOCKSIZE # 0
  /\ 0 < fw.inMaxWriteSize /\ fw.inMaxWriteSize < CHUNKSIZE
  /\ fw.mMaxWriteSize > fw.inMaxWriteSize

\* the bytes of the ops of a queue
RECURSIVE QueueSize(_)
QueueSize(q) == IF q = <<>> THEN 0 ELSE Head(q).size + QueueSize(Tail(q))

\* the pending count of every chunk writer is the size of its two queues,
\* and the failure of an op leaves the pending count of its writer as it
\* was
CountsQueued ==
  ~aborted =>
     /\ \A i \in 1..Len(ws) :
           ws[i].mPendingCount =
              QueueSize(ws[i].mPendingQueue) + QueueSize(ws[i].mInFlightQueue)
     /\ g.fail # <<>> =>
           \A i \in 1..Len(ws) :
              ws[i].id = g.fail.id => ws[i].mPendingCount = g.fail.pend

\* a step in which the pending count of a chunk writer decreases
\* acknowledges a write op of that writer, or completes the allocation of a
\* writer in the invalidate mode, or is a Stop or a Shutdown
DecreaseIsAck ==
  \A i \in 1..Len(ws), j \in 1..Len(ws') :
     (ws[i].id = ws'[j].id /\ ws'[j].mPendingCount < ws[i].mPendingCount) =>
        \/ /\ g'.acked # <<>>
           /\ ws[i].mPendingCount - ws'[j].mPendingCount = g'.acked[2]
        \/ ws[i].mAllocOp.invalidateAllFlag
        \/ g'.how \in {"stop", "shutdown"}

\* C34: in every state the pending count of a chunk writer is the sum of
\* the sizes of the write ops in its pending and in-flight queues; a failure
\* leaves it as it was, and it decreases only when a write op of the writer
\* is acknowledged, by the size of that op (or when the queues are emptied
\* by an invalidate or a shutdown)
C34_ByteConservation == []CountsQueued /\ [][DecreaseIsAck]_vars

\* a chunk writer with a write op in flight, another pending, and the retry
\* count of a failure that moved ops back
C34_Witness ==
  /\ ~aborted
  /\ \E i \in 1..Len(ws) :
        /\ ws[i].mPendingQueue # <<>>
        /\ ws[i].mPendingCount > 0
        /\ ws[i].mRetryCount > 0
        /\ g.fail # <<>> /\ g.fail.what = "write" /\ g.fail.id = ws[i].id

\* the checksum blocks in the block ranges of the ops of a queue
QueueBlocks(q) == UNION {OpBlocks(q[k]) : k \in 1..Len(q)}

RetrySleep(w) == w.mSleepingFlag /\ ~w.mLeaseUpdatePendingFlag

\* C36: a chunk writer in a retry sleep has no op on either transport: its
\* in-flight queue is empty, its last op pointer is null and none of its
\* ops is outstanding; a step through which it stays in the same sleep
\* leaves this so
C36_RetrySleepQuiet ==
  ~aborted =>
     \A i \in 1..Len(ws) :
        RetrySleep(ws[i]) =>
           /\ ws[i].mInFlightQueue = <<>>
           /\ ws[i].mInFlightBlocks = {}
           /\ ws[i].mLastOpPtr = "none"
           /\ ws[i].out = {}

\* a chunk writer sleeping before a retry with a write left pending, a step
\* after the failure that sent it to sleep
C36_Witness ==
  /\ ~aborted
  /\ \E i \in 1..Len(ws) :
        /\ RetrySleep(ws[i])
        /\ ws[i].mRetryCount > 0
        /\ ws[i].mPendingQueue # <<>>
        /\ g.fail = <<>>
Closed == ~aborted /\ g.term # NoTerminal /\ ~IsOpen(fw)

\* after the terminal completion the file writer holds nothing
ClosedIsQuiet ==
  Closed =>
     /\ ws = <<>>
     /\ fw.mTruncateOp.fid < 0
     /\ ~fw.mSleepingFlag
     /\ ~fw.mClosingFlag
     /\ g.fin => (g.dones # <<>> /\ g.dones[Len(g.dones)] = <<g.term, 0, 0>>)

\* a step from a closed writer to a closed writer delivers no completion
\* (the passing of time leaves the record of the last step as it is)
ClosedIsSilent ==
  (Closed /\ Closed') =>
     \/ g'.dones = <<>>
     \/ /\ now' = now + TickSecs
        /\ g'.dones = g.dones
        /\ UNCHANGED <<fw, ws>>

\* C38: after the terminal completion of a close the writer has no chunk
\* writer, no op outstanding and no timer armed, its closing and sleeping
\* flags are clear, the terminal completion is the last one of its step, and
\* no step delivers a completion before the file is opened again
C38_ClosedIsDone == []ClosedIsQuiet /\ [][ClosedIsSilent]_vars

\* a file closed with data written, and a call made on it after the close
C38_Witness ==
  /\ Closed
  /\ g.term = 0
  /\ fw.mOffset > 0
  /\ ~g.fin
  /\ g.dones = <<>>
\* the lengths of a Write that brings no bytes
EmptyLengths == {-1, 0}

\* C39: a Write of length <= 0, without the flush flag, to an open writer
\* that is neither closing nor in error returns 0 or less, does not end the
\* process and leaves the pending count, GetPendingSize(), the cursor and
\* the staging buffer as they are
C39_EmptyWriteNoEffect ==
  (~aborted /\ IsOpen(fw) /\ ~fw.mClosingFlag /\ fw.mErrorCode = 0) =>
     \A inLength \in EmptyLengths, inOffset \in 0..MaxFilePos :
        \E r \in {Impl_Write(Start, inLength, inOffset, FALSE, -1)} :
           /\ ~r.s.ab
           /\ r.ret <= 0
           /\ r.s.fw.mPendingCount = fw.mPendingCount
           /\ GetPendingSize(r.s.fw) = GetPendingSize(fw)
           /\ Cursor(r.s.fw) = Cursor(fw)
           /\ r.s.fw.mBuffer = fw.mBuffer
(* The progress loop under every configuration of the constructor: the
   staged bytes of a constructed writer without a striper and without an
   error are queued by the loop of Impl::StartWrite, one iteration a step,
   on chunk writers whose ops wait in their pending queues. *)
\* Impl::StartWrite, theWriteThreshold
WriteThresholdOf(f, inFlushFlag) ==
  Max(1, IF inFlushFlag \/ f.mClosingFlag THEN 1 ELSE f.mWriteThreshold)

\* Impl::StartWrite, the condition of the loop (mMaxPendingThreshold is
\* mMaxWriteSize without a striper)
LoopCondition(f, inFlushFlag) ==
  /\ f.mErrorCode = 0
  /\ \/ f.mMaxWriteSize <= f.mBuffer
     \/ WriteThresholdOf(f, inFlushFlag) <= GetPendingSizeSelf(f)

\* ChunkWriter::QueueWrite of the staged bytes of f on the pending queue q,
\* the chunk writer being the one of the chunk of f.mOffset: r.q the queue
\* it leaves, r.n the bytes it took, r.hang: it does not return
QueueWriteOf(f, q, inWriteThreshold) ==
      Only([theChunkOffset \in {f.mOffset % CHUNKSIZE} |->
      Only([theSize \in {Min(f.mBuffer, CHUNKSIZE - theChunkOffset)} |->
      Only([r1 \in {CoalesceOf(f.mMaxWriteSize, q, theSize, theChunkOffset)} |->
      Only([theWriteThreshold \in {IF r1.pos + r1.size >= CHUNKSIZE THEN 1
                                   ELSE Max(inWriteThreshold, 1)} |->
      Only([r3 \in {QueueOpsOf(f.mMaxWriteSize,
                               Fragment(r1, theWriteThreshold),
                               theWriteThreshold)} |->
     IF f.mBuffer <= 0 THEN [q |-> q, n |-> 0, hang |-> FALSE]
     ELSE [q |-> r3.q, n |-> r3.pos - theChunkOffset,
           hang |-> r3.size >= theWriteThreshold]])])])])])

\* one iteration of the loop of Impl::StartWrite: Impl::QueueWrite finds or
\* creates the chunk writer and advances mOffset by the bytes queued
Iteration(s, inFlushFlag) ==
      Only([theFileOffset \in {s.fw.mOffset - (s.fw.mOffset % CHUNKSIZE)} |->
      Only([found \in {{i \in 1..Len(s.ws) :
                          GetFileOffset(s.ws[i]) = theFileOffset}} |->
      Only([old \in {IF found = {} THEN s.ws
                     ELSE RemoveAt(s.ws, CHOOSE k \in found : \A j \in found : k <= j)} |->
      Only([w \in {IF found = {}
                   THEN [ChunkWriter(FreshId(s)) EXCEPT
                           !.mAllocOp.fileOffset = theFileOffset]
                   ELSE s.ws[CHOOSE k \in found : \A j \in found : k <= j]} |->
      Only([r \in {QueueWriteOf(s.fw, w.mPendingQueue,
                     Min(s.fw.mMaxWriteSize,
                         WriteThresholdOf(s.fw, inFlushFlag)))} |->
     [s EXCEPT !.fw.mBuffer = s.fw.mBuffer - r.n,
               !.fw.mOffset = s.fw.mOffset + r.n,
               !.fw.mPendingCount = s.fw.mPendingCount + r.n,
               !.ws = IF s.fw.mBuffer <= 0 THEN s.ws
                      ELSE <<[w EXCEPT !.mPendingQueue = r.q,
                                       !.mPendingCount = w.mPendingCount + r.n]>>
                           \o old,
               !.g.hang = r.hang]])])])])])

\* Impl::Write appends inLength bytes to the staging buffer
StageBytes ==
  /\ Constructed /\ ~g.hang
  /\ \E inLength \in 1..MaxWriteLen :
       /\ Cursor(fw) + inLength <= MaxFilePos
       /\ fw' = [fw EXCEPT !.mBuffer = fw.mBuffer + inLength]
  /\ UNCHANGED <<ws, now, g, aborted>>

\* the loop of Impl::StartWrite runs an iteration
Iterate ==
  /\ Constructed /\ ~g.hang
  /\ \E inFlushFlag \in BOOLEAN :
       /\ LoopCondition(fw, inFlushFlag)
       /\ Commit(Iteration(Cur, inFlushFlag))

\* the ops of a chunk writer are written and acknowledged
OpsDone ==
  /\ Constructed /\ ~g.hang
  /\ \E i \in 1..Len(ws) :
       /\ ws[i].mPendingQueue # <<>>
       /\ ws' = [ws EXCEPT ![i].mPendingQueue = <<>>,
                           ![i].mPendingCount = 0]
       /\ fw' = [fw EXCEPT !.mPendingCount =
                              fw.mPendingCount - ws[i].mPendingCount]
  /\ UNCHANGED <<now, g, aborted>>

NextLoop == Construct \/ StageBytes \/ Iterate \/ OpsDone

LoopSpec == CtorInit /\ [][NextLoop]_vars

\* C40: under every configuration the constructor accepts, an iteration of
\* the loop of Impl::StartWrite returns, every op ChunkWriter::QueueWrite
\* creates holds at least one byte, and the iteration takes at least one
\* byte from the staging buffer or leaves it empty
C40_LoopTerminates ==
  (Constructed /\ ~g.hang) =>
     /\ \A i \in 1..Len(ws) :
           \A k \in 1..Len(ws[i].mPendingQueue) :
              ws[i].mPendingQueue[k].size >= 1
     /\ \A inFlushFlag \in BOOLEAN :
           LoopCondition(fw, inFlushFlag) =>
              \E s \in {Iteration(Cur, inFlushFlag)} :
                 /\ ~s.g.hang
                 /\ \A i \in 1..Len(s.ws) :
                       \A k \in 1..Len(s.ws[i].mPendingQueue) :
                          s.ws[i].mPendingQueue[k].size >= 1
                 /\ s.fw.mBuffer = 0 \/ s.fw.mBuffer < fw.mBuffer
====
